---- MODULE Spec2Model ----
(***************************************************************************)
(* arcadeV2: the payment ledger and play-session core.                     *)
(*                                                                         *)
(* The store is one SQLite file (openDb) opened by two servers, the API    *)
(* server and the webhook server.  Every prepared statement run outside a  *)
(* db.transaction commits on its own, and every db.transaction block       *)
(* commits as a whole, so the atomic steps of the model are exactly those: *)
(* one action per statement or transaction block of a handler, with the    *)
(* handler's locals (the rows it has read, the instant it has captured)    *)
(* carried between them.  Other connections to the store may commit        *)
(* between two steps of a handler.  Time is counted in seconds.            *)
(***************************************************************************)
EXTENDS Integers, Naturals, Sequences, FiniteSets, Bags, TLC

(* ---------------------------------------------------------------- bounds *)
\* Deliveries handled one after another: the orders created, the clock steps.
MaxOrders == 2
MaxTicks == 2
\* Handlers of both servers interleaved: the handler activations at a time, the
\* sessions started, the orders created, the clock steps.
MaxInFlight == 2
MaxSessions == 2
MaxRaceOrders == 1
MaxRaceTicks == 1
\* Any configuration, one request at a time: the sessions started.
MaxConfigSessions == 1

(* ------------------------------------------------------ program constants *)
PLAY_SESSION_DURATION_SECONDS == 300

Users == {"u1", "u2"}
GameIds == {"flappy", "snake"}

\* SKU_CATALOG: the grant of each sku.
SKU_CATALOG ==
  [CREDITS_10  |-> [grantCredits |-> 10, passMinutes |-> 0],
   CREDITS_50  |-> [grantCredits |-> 50, passMinutes |-> 0],
   PASS_60_MIN |-> [grantCredits |-> 0,  passMinutes |-> 60]]

CatalogSkus == DOMAIN SKU_CATALOG

\* getEnv().fulfillOnEvents with COINBASE_FULFILL_ON_EVENTS unset.
fulfillOnEvents == {"charge:confirmed"}

\* The event types a delivery may carry; NoType is a payload without a string type.
NoType == "<none>"
EventTypes == {"charge:confirmed", "charge:pending"}

(* -------------------------------------------------------------- null values *)
\* SQL NULL / JS null of a timestamp column and of a lookup key.
NoTime == 0 - 1
NoKey == <<>>

OrderId(k) == <<"order", k>>
ChargeId(k) == <<"charge", k>>
Code(k) == <<"code", k>>

Procs == {1, 2}

\* process.env as the servers find it at startup: the variables the handlers
\* depend on, "" standing for a variable that is not set.
ProcessEnvs ==
  [COINBASE_COMMERCE_API_KEY : {"", "key"},
   COINBASE_COMMERCE_WEBHOOK_SECRET : {"", "whsec"},
   SUPABASE_URL : {"", "https://idp"},
   SUPABASE_SERVICE_ROLE_KEY : {"srk"},
   NODE_ENV : {"production", "development"},
   DEV_AUTH_BYPASS : {"0", "1"}]

\* A production deployment with every key configured.
ConfiguredEnv ==
  [COINBASE_COMMERCE_API_KEY |-> "key", COINBASE_COMMERCE_WEBHOOK_SECRET |-> "whsec",
   SUPABASE_URL |-> "https://idp", SUPABASE_SERVICE_ROLE_KEY |-> "srk",
   NODE_ENV |-> "production", DEV_AUTH_BYPASS |-> "0"]

\* getEnv(): the fields it returns that the handlers read; `process` keeps
\* process.env itself, which authenticateRequest reads directly.
getEnv(processEnv) ==
  [coinbaseApiKey |-> processEnv.COINBASE_COMMERCE_API_KEY,
   coinbaseWebhookSecret |-> processEnv.COINBASE_COMMERCE_WEBHOOK_SECRET,
   supabaseUrl |-> processEnv.SUPABASE_URL,
   supabaseServiceRoleKey |-> processEnv.SUPABASE_SERVICE_ROLE_KEY,
   process |-> processEnv]

\* Reading a property of an object: undefined when the object has none of
\* that name; undefined and the empty string are falsy.
Undefined == "<undefined>"
Field(obj, name) == IF name \in DOMAIN obj THEN obj[name] ELSE Undefined
Truthy(v) == v # Undefined /\ v # ""

VARIABLES
  env,            \* getEnv(): the configuration the servers were started with
  orders,         \* table orders: a set of rows
  wallets,        \* table wallets: user_id -> row, or NoWallet when there is no row
  transactions,   \* table transactions: a bag of rows (tx_id is a random UUID)
  play_sessions,  \* table play_sessions: a set of rows
  clock,          \* the wall clock (new Date()), in seconds
  wh,             \* webhook handler activations: position and locals
  st,             \* /play/start handler activations: position and locals
  arcade          \* the Arcade page in the player's browser: its React state

vars ==
  <<env, orders, wallets, transactions, play_sessions, clock, wh, st, arcade>>
db == <<orders, wallets, transactions, play_sessions>>

\* A row of table wallets (row is TRUE), and the absence of one.
Wallet(credits, pass_expires_at) ==
  [row |-> TRUE, credits |-> credits, pass_expires_at |-> pass_expires_at]
NoWallet == [row |-> FALSE, credits |-> 0, pass_expires_at |-> NoTime]
\* An HTTP reply: the status code and the body's error ("" when ok is true).
\* NoReply: the handler has not answered yet.
Reply(code, error) == [code |-> code, error |-> error]
NoReply == Reply(0, "")
OK == Reply(200, "")

\* The handler activations in flight, of both servers.
InFlight ==
  Cardinality({p \in Procs : wh[p].pc # "idle"})
  + Cardinality({p \in Procs : st[p].pc # "idle"})

(* ------------------------------------------------------------ store helpers *)
\* The sum of w[t] over the elements t of the finite set S.
Total(S, w) ==
  LET F[T \in SUBSET S] ==
        IF T = {} THEN 0
        ELSE LET t == CHOOSE t \in T : TRUE
             IN w[t] + F[T \ {t}]
  IN F[S]

\* The rows of table transactions of one kind.
TxRows(kind) == {t \in BagToSet(transactions) : t.kind = kind}

\* SELECT COUNT(*) FROM transactions WHERE kind = 'purchase' AND the order is id.
PurchaseCount(id) ==
  LET S == {t \in TxRows("purchase") : t.meta.order_id = id}
  IN Total(S, [t \in S |-> CopiesIn(t, transactions)])

\* SELECT SUM(delta_credits) FROM transactions WHERE user_id = ? AND kind = ?
DeltaCredits(userId, kind) ==
  LET S == {t \in TxRows(kind) : t.user_id = userId}
  IN Total(S, [t \in S |-> CopiesIn(t, transactions) * t.delta_credits])

(* ------------------------------------------------------------ wallet.mjs *)
\* Variant: INSERT OR REPLACE, which resets the wallet of a user who has one.
ensureWalletReplace(ws, userId) == [ws EXCEPT ![userId] = Wallet(0, NoTime)]

\* ensureWallet: INSERT OR IGNORE INTO wallets (user_id, credits, pass_expires_at)
\* VALUES (?, 0, NULL)
ensureWallet(ws, userId) ==
  IF ws[userId].row THEN ws ELSE [ws EXCEPT ![userId] = Wallet(0, NoTime)]

\* hasActivePass(wallet) at instant t.
hasActivePass(wallet, t) ==
  IF wallet.pass_expires_at = NoTime THEN FALSE
  ELSE wallet.pass_expires_at > t

\* Variant: SET credits = ? with the granted amount, not an increment.
ApplyCreditsOverwrite(credits, deltaCredits) ==
  IF deltaCredits > 0 THEN deltaCredits ELSE credits

\* grantForSku, "Apply credits": UPDATE wallets SET credits = credits + ?
ApplyCredits(credits, deltaCredits) ==
  IF deltaCredits > 0 THEN credits + deltaCredits ELSE credits

\* Variant: a pass always runs from the instant of the grant.
ApplyPassFromNow(current, minutes, t) ==
  IF minutes > 0 THEN t + minutes * 60 ELSE current

\* Variant: a grant without pass minutes clears the pass.
ApplyPassOrClear(current, minutes, t) ==
  IF minutes > 0
    THEN LET base == IF current # NoTime THEN current ELSE t
             start == IF base > t THEN base ELSE t
         IN start + minutes * 60
    ELSE NoTime

\* grantForSku, "Apply pass": the new pass_expires_at of a wallet whose
\* pass_expires_at is current, for a grant of `minutes` at instant t.
ApplyPass(current, minutes, t) ==
  IF minutes > 0
    THEN LET base == IF current # NoTime THEN current ELSE t
             start == IF base > t THEN base ELSE t
         IN start + minutes * 60
    ELSE current

\* grantForSku: the wallets table after the grant.
grantWallets(ws, userId, catalogItem, t) ==
  LET w1 == ensureWallet(ws, userId)
  IN [w1 EXCEPT ![userId] =
        Wallet(ApplyCredits(w1[userId].credits, catalogItem.grantCredits),
               ApplyPass(w1[userId].pass_expires_at, catalogItem.passMinutes, t))]

\* Variant: the purchase row is recorded with delta_credits 0.
purchaseTxNoDelta(userId, sku, catalogItem, meta) ==
  [user_id |-> userId, kind |-> "purchase", sku |-> sku,
   delta_credits |-> 0, meta |-> meta]

\* grantForSku: the row it inserts into transactions.
purchaseTx(userId, sku, catalogItem, meta) ==
  [user_id |-> userId, kind |-> "purchase", sku |-> sku,
   delta_credits |-> catalogItem.grantCredits, meta |-> meta]

(* ------------------------------------------------------------- crypto.mjs *)
\* A hex string is the bytes its digits stand for (how many, and which) and the
\* case of its letters.  hmacSha256Hex: digest('hex') gives 64 lower-case digits
\* for the 32 bytes the key and the message determine.
hmacSha256Hex(secret, rawBody) ==
  [len |-> 32, bytes |-> <<secret, rawBody>>, upper |-> FALSE]

\* Buffer.from(hex, 'hex'): the bytes, whatever the case of the digits.
BufferFromHex(hex) == [len |-> hex.len, bytes |-> hex.bytes]

\* Variant: only the lengths of the two buffers are compared.
timingSafeEqualLength(aHex, bHex) == BufferFromHex(aHex).len = BufferFromHex(bHex).len

\* timingSafeEqualHex: both decoded from hex, equal lengths and equal bytes.
timingSafeEqualHex(aHex, bHex) ==
  IF BufferFromHex(aHex).len # BufferFromHex(bHex).len THEN FALSE
  ELSE BufferFromHex(aHex).bytes = BufferFromHex(bHex).bytes

(* ------------------------------------------------------------ webhook.mjs *)
\* A request body that is not JSON, and a JSON payload without a string type.
InvalidJson ==
  [json |-> FALSE, type |-> NoType, order_id |-> NoKey, id |-> NoKey,
   code |-> NoKey, meta_user |-> "u1", meta_sku |-> "CREDITS_50"]
Typeless == [InvalidJson EXCEPT !.json = TRUE, !.order_id = OrderId(1)]

\* The metadata.user_id and metadata.sku a payload may carry.
MetaChoices == {<<"u1", "CREDITS_50">>, <<"u2", "PASS_60_MIN">>}

\* The lookup keys a payload may carry (metadata.order_id, data.id, data.code):
\* none, one key of an order, all three keys of an order, or keys of different
\* orders.
KeyChoices ==
  {<<NoKey, NoKey, NoKey>>}
  \cup {<<OrderId(k), NoKey, NoKey>> : k \in 1..MaxOrders}
  \cup {<<NoKey, ChargeId(k), NoKey>> : k \in 1..MaxOrders}
  \cup {<<NoKey, NoKey, Code(k)>> : k \in 1..MaxOrders}
  \cup {<<OrderId(k), ChargeId(k), Code(k)>> : k \in 1..MaxOrders}
  \cup {<<OrderId(k), ChargeId(k + 1), Code(k + 1)>> : k \in 1..(MaxOrders - 1)}
  \cup {<<NoKey, ChargeId(k + 1), Code(k)>> : k \in 1..(MaxOrders - 1)}

\* The event payloads a delivery may carry: any type, any of the lookup keys.
EventBodies ==
  {[json |-> TRUE, type |-> ty, order_id |-> k[1], id |-> k[2], code |-> k[3],
    meta_user |-> m[1], meta_sku |-> m[2]] :
     ty \in EventTypes, k \in KeyChoices, m \in MetaChoices}

\* The X-CC-Webhook-Signature header of a request: none, the digest under the
\* configured secret as the sender computes it or spelled in upper case, the
\* digest under a key the sender made up, a genuine digest of another body, or
\* an empty string.
NoSig == [len |-> 0 - 1, bytes |-> <<>>, upper |-> FALSE]
ForgedKinds == {"none", "wrongkey", "otherbody", "empty"}
OtherBody(body) == IF body = InvalidJson THEN Typeless ELSE InvalidJson
SigHeader(kind, body) ==
  CASE kind = "none" -> NoSig
    [] kind = "valid" -> hmacSha256Hex(env.coinbaseWebhookSecret, body)
    [] kind = "upper" ->
         [hmacSha256Hex(env.coinbaseWebhookSecret, body) EXCEPT !.upper = TRUE]
    [] kind = "wrongkey" -> hmacSha256Hex("guess", body)
    [] kind = "otherbody" -> hmacSha256Hex(env.coinbaseWebhookSecret, OtherBody(body))
    [] OTHER -> [len |-> 0, bytes |-> <<>>, upper |-> FALSE]

\* The bodies an unsigned or wrongly signed request is tried with: a confirmed
\* event that names the first order by all three keys, and a body that is not JSON.
ConfirmFirst ==
  [json |-> TRUE, type |-> "charge:confirmed", order_id |-> OrderId(1),
   id |-> ChargeId(1), code |-> Code(1), meta_user |-> "u2",
   meta_sku |-> "PASS_60_MIN"]
ForgedBodies == {ConfirmFirst, InvalidJson}

\* The requests the webhook server receives.
ForgedRequests == {[kind |-> k, body |-> b] : k \in ForgedKinds, b \in ForgedBodies}
SignedRequests ==
  {[kind |-> "valid", body |-> b] : b \in EventBodies \cup {InvalidJson, Typeless}}
Requests ==
  ForgedRequests \cup SignedRequests \cup {[kind |-> "upper", body |-> ConfirmFirst]}

\* Variant: an event that matches no order falls back to the oldest order.
findOrderOrOldest(orderId, chargeId, code) ==
  IF orderId # NoKey /\ \E o \in orders : o.order_id = orderId
    THEN {o \in orders : o.order_id = orderId}
  ELSE IF chargeId # NoKey /\ \E o \in orders : o.coinbase_charge_id = chargeId
    THEN {o \in orders : o.coinbase_charge_id = chargeId}
  ELSE IF code # NoKey /\ \E o \in orders : o.coinbase_code = code
    THEN {o \in orders : o.coinbase_code = code}
  ELSE {o \in orders : o.order_id = OrderId(1)}

\* Variant: the charge id is tried before the order id.
findOrderChargeFirst(orderId, chargeId, code) ==
  IF chargeId # NoKey /\ \E o \in orders : o.coinbase_charge_id = chargeId
    THEN {o \in orders : o.coinbase_charge_id = chargeId}
  ELSE IF orderId # NoKey /\ \E o \in orders : o.order_id = orderId
    THEN {o \in orders : o.order_id = orderId}
  ELSE IF code # NoKey /\ \E o \in orders : o.coinbase_code = code
    THEN {o \in orders : o.coinbase_code = code}
  ELSE {}

\* findOrder: by order id, then by charge id, then by code; the first hit wins.
findOrder(orderId, chargeId, code) ==
  IF orderId # NoKey /\ \E o \in orders : o.order_id = orderId
    THEN {o \in orders : o.order_id = orderId}
  ELSE IF chargeId # NoKey /\ \E o \in orders : o.coinbase_charge_id = chargeId
    THEN {o \in orders : o.coinbase_charge_id = chargeId}
  ELSE IF code # NoKey /\ \E o \in orders : o.coinbase_code = code
    THEN {o \in orders : o.coinbase_code = code}
  ELSE {}

\* The signature check of the handler.
SignatureOk(sigHeader, rawBody) ==
  timingSafeEqualHex(hmacSha256Hex(env.coinbaseWebhookSecret, rawBody), sigHeader)

\* Variant: the handler does not test whether a secret is configured.
PreLookupReplyAnySecret(sigHeader, rawBody) ==
  IF sigHeader = NoSig THEN Reply(400, "Missing X-CC-Webhook-Signature.")
  ELSE IF ~SignatureOk(sigHeader, rawBody) THEN Reply(401, "Invalid signature.")
  ELSE IF ~rawBody.json THEN Reply(400, "Invalid JSON.")
  ELSE IF rawBody.type = NoType THEN OK
  ELSE NoReply

\* Variant: a body that is not JSON is taken for an event without a type.
PreLookupReplyAnyBody(sigHeader, rawBody) ==
  IF sigHeader = NoSig THEN Reply(400, "Missing X-CC-Webhook-Signature.")
  ELSE IF env.coinbaseWebhookSecret = "" THEN Reply(501, "Webhook secret not set.")
  ELSE IF ~SignatureOk(sigHeader, rawBody) THEN Reply(401, "Invalid signature.")
  ELSE IF rawBody.type = NoType THEN OK
  ELSE NoReply

\* The reply of the checks that precede the order lookup, NoReply when they pass.
PreLookupReply(sigHeader, rawBody) ==
  IF sigHeader = NoSig THEN Reply(400, "Missing X-CC-Webhook-Signature.")
  ELSE IF env.coinbaseWebhookSecret = "" THEN Reply(501, "Webhook secret not set.")
  ELSE IF ~SignatureOk(sigHeader, rawBody) THEN Reply(401, "Invalid signature.")
  ELSE IF ~rawBody.json THEN Reply(400, "Invalid JSON.")
  ELSE IF rawBody.type = NoType THEN OK
  ELSE NoReply

\* Variant: an event that matches no order is refused, so that the provider
\* delivers it again.
WebhookReceiveReplyRetry(sigHeader, rawBody) ==
  IF PreLookupReply(sigHeader, rawBody) # NoReply
    THEN PreLookupReply(sigHeader, rawBody)
  ELSE IF findOrder(rawBody.order_id, rawBody.id, rawBody.code) = {}
    THEN Reply(404, "Order not found.")
  ELSE NoReply

\* The reply of the handler's first step, NoReply when it goes on to the stamp.
WebhookReceiveReply(sigHeader, rawBody) ==
  IF PreLookupReply(sigHeader, rawBody) # NoReply
    THEN PreLookupReply(sigHeader, rawBody)
  ELSE IF findOrder(rawBody.order_id, rawBody.id, rawBody.code) = {} THEN OK
  ELSE NoReply

\* Variant: the recipient is read from the payload's metadata.
effectiveUserFromPayload(order, metadata) == metadata.user_id

\* The user and the sku the grant is made for: those of the stored order, never
\* those of the payload's metadata.
effectiveUser(order, metadata) == order.user_id
effectiveSku(order, metadata) == order.sku

\* The locals of a handler activation that its later steps read: of the order
\* row, the key, the charge id and fulfilled_at as they were read.
WhIdle ==
  [pc |-> "idle", eventType |-> NoType, now |-> NoTime, order_id |-> NoKey,
   coinbase_charge_id |-> NoKey, fulfilled_at |-> NoTime,
   effectiveUser |-> "", effectiveSku |-> ""]

WhLocals(rawBody, order) ==
  [pc |-> "stamp", eventType |-> rawBody.type, now |-> clock,
   order_id |-> order.order_id,
   coinbase_charge_id |-> order.coinbase_charge_id,
   fulfilled_at |-> order.fulfilled_at,
   effectiveUser |->
     effectiveUser(order, [user_id |-> rawBody.meta_user, sku |-> rawBody.meta_sku]),
   effectiveSku |->
     effectiveSku(order, [user_id |-> rawBody.meta_user, sku |-> rawBody.meta_sku])]

\* POST /commerce/webhook up to the order lookup: the request checks, JSON.parse,
\* findOrder, and the instant `now` of the handler.
WebhookReceive(p, sigHeader, rawBody) ==
  /\ wh[p].pc = "idle"
  /\ IF WebhookReceiveReply(sigHeader, rawBody) # NoReply
       THEN UNCHANGED wh
       ELSE wh' = [wh EXCEPT ![p] =
              WhLocals(rawBody,
                       CHOOSE o \in findOrder(rawBody.order_id, rawBody.id,
                                              rawBody.code) : TRUE)]
  /\ UNCHANGED <<arcade, env, db, clock, st>>

\* Variant: no idempotency gate.
AlreadyFulfilledNever(fulfilled_at) == FALSE

\* The idempotency gate: the order row the handler read is already fulfilled.
AlreadyFulfilled(fulfilled_at) == fulfilled_at # NoTime

\* Variant: the handler does not consult the allow-list.
AfterStampAnyEvent(eventType, fulfilled_at, sku) ==
  IF AlreadyFulfilled(fulfilled_at) THEN "done"
  ELSE IF sku \notin CatalogSkus THEN "done"
  ELSE "fulfill"

\* What the handler does after the status stamp: "done" (reply 200) or "fulfill".
AfterStamp(eventType, fulfilled_at, sku) ==
  IF eventType \notin fulfillOnEvents THEN "done"
  ELSE IF AlreadyFulfilled(fulfilled_at) THEN "done"
  ELSE IF sku \notin CatalogSkus THEN "done"
  ELSE "fulfill"

\* Variant: the status of a fulfilled order is left alone.
StampStatusUnlessFulfilled(os, id, eventType) ==
  {IF o.order_id = id /\ o.fulfilled_at = NoTime
     THEN [o EXCEPT !.status = eventType] ELSE o : o \in os}

\* UPDATE orders SET status = ?, updated_at = ? WHERE order_id = ?
StampStatus(os, id, eventType) ==
  {IF o.order_id = id THEN [o EXCEPT !.status = eventType] ELSE o : o \in os}

\* Variant: an order whose sku the catalog does not know is marked fulfilled, so
\* that its event is not processed again.
WebhookStampMarking(p) ==
  /\ wh[p].pc = "stamp"
  /\ orders' =
       IF wh[p].effectiveSku \notin CatalogSkus
         THEN {IF o.order_id = wh[p].order_id
                 THEN [o EXCEPT !.status = wh[p].eventType, !.fulfilled_at = wh[p].now]
                 ELSE o : o \in orders}
         ELSE StampStatus(orders, wh[p].order_id, wh[p].eventType)
  /\ IF AfterStamp(wh[p].eventType, wh[p].fulfilled_at, wh[p].effectiveSku) = "done"
       THEN wh' = [wh EXCEPT ![p] = WhIdle]
       ELSE wh' = [wh EXCEPT ![p].pc = "fulfill"]
  /\ UNCHANGED <<arcade, env, wallets, transactions, play_sessions, clock, st>>

\* The status stamp, then the allow-list, the idempotency gate and the catalog
\* lookup.
WebhookStamp(p) ==
  /\ wh[p].pc = "stamp"
  /\ orders' = StampStatus(orders, wh[p].order_id, wh[p].eventType)
  /\ IF AfterStamp(wh[p].eventType, wh[p].fulfilled_at, wh[p].effectiveSku) = "done"
       THEN wh' = [wh EXCEPT ![p] = WhIdle]
       ELSE wh' = [wh EXCEPT ![p].pc = "fulfill"]
  /\ UNCHANGED <<arcade, env, wallets, transactions, play_sessions, clock, st>>

\* Variant: the transaction grants and leaves fulfilled_at alone.
MarkFulfilledSkipped(os, id, now) == os

\* UPDATE orders SET fulfilled_at = ?, updated_at = ? WHERE order_id = ?
MarkFulfilled(os, id, now) ==
  {IF o.order_id = id THEN [o EXCEPT !.fulfilled_at = now] ELSE o : o \in os}

\* tx = db.transaction: grantForSku and the fulfilled_at update commit together.
WebhookFulfill(p) ==
  /\ wh[p].pc = "fulfill"
  /\ LET user == wh[p].effectiveUser
         sku == wh[p].effectiveSku
         item == SKU_CATALOG[sku]
         meta == [order_id |-> wh[p].order_id,
                  coinbase_charge_id |-> wh[p].coinbase_charge_id,
                  event_type |-> wh[p].eventType]
     IN /\ wallets' = grantWallets(wallets, user, item, clock)
        /\ transactions' = transactions (+) SetToBag({purchaseTx(user, sku, item, meta)})
        /\ orders' = MarkFulfilled(orders, wh[p].order_id, wh[p].now)
  /\ wh' = [wh EXCEPT ![p] = WhIdle]
  /\ UNCHANGED <<arcade, env, play_sessions, clock, st>>

\* Variant: a handler that stops after the status stamp leaves the order marked
\* fulfilled.
WebhookAbortMarking(p) ==
  /\ wh[p].pc # "idle"
  /\ orders' = MarkFulfilled(orders, wh[p].order_id, wh[p].now)
  /\ wh' = [wh EXCEPT ![p] = WhIdle]
  /\ UNCHANGED <<arcade, env, wallets, transactions, play_sessions, clock, st>>

\* The handler stops between two statements or inside the transaction, which
\* is rolled back: a statement throws (Fastify answers 500), or the process dies.
WebhookAbort(p) ==
  /\ wh[p].pc # "idle"
  /\ wh' = [wh EXCEPT ![p] = WhIdle]
  /\ UNCHANGED <<arcade, env, db, clock, st>>

\* What the sender of a delivery gets when a statement of the handler throws:
\* the handler catches nothing after JSON.parse and the server sets no error
\* handler, so the framework answers 500.
WebhookAbortReply == Reply(500, "Internal Server Error")

\* The reply of the step by which activation p ends its delivery: 200 from the
\* returns after the status stamp and after the transaction, else the reply of
\* an abort.
ProcessingReply(p) ==
  IF WebhookStamp(p) \/ WebhookFulfill(p) THEN OK ELSE WebhookAbortReply

(* ---------------------------------------------------------------- api.mjs *)
\* authenticateRequest gives the user id, or has answered 401 (NoUser).
NoUser == "<nobody>"
UNAUTHORIZED == Reply(401, "Missing or invalid Authorization header.")

\* What a request carries to identify its sender: an Authorization header (none,
\* the access token of a user, or a token the identity provider rejects) and an
\* x-dev-user-id header (none, or a user id).
NoBearer == <<>>
BadBearer == <<"jwt", "expired">>
NoHeader == ""
Credentials ==
  [bearer : {NoBearer, BadBearer} \cup {<<"jwt", u>> : u \in Users},
   devUserId : {NoHeader, "u2"}]

\* verifySupabaseToken: throws when the identity provider is not configured,
\* else the user the provider knows the token for, or null.
AuthError == "<throws>"
verifySupabaseToken(accessToken) ==
  IF ~Truthy(env.supabaseUrl) \/ ~Truthy(env.supabaseServiceRoleKey) THEN AuthError
  ELSE IF accessToken[2] \in Users THEN accessToken[2]
  ELSE NoUser

\* Variant: the bypass is active whatever the configuration.
devAuthBypassAlways == TRUE

\* The condition of the dev auth bypass fallback.
devAuthBypassActive ==
  Truthy(Field(env, "devAuthBypass")) /\ env.process.NODE_ENV # "production"

\* Variant: a request without an accepted token is taken for the first user.
authenticateRequestLax(c) ==
  IF c.bearer # NoBearer /\ verifySupabaseToken(c.bearer) = AuthError THEN AuthError
  ELSE IF c.bearer # NoBearer /\ verifySupabaseToken(c.bearer) # NoUser
    THEN verifySupabaseToken(c.bearer)
  ELSE "u1"

\* authenticateRequest: the user id of the request, NoUser when it has sent
\* 401, AuthError when verifySupabaseToken threw.
authenticateRequest(c) ==
  IF c.bearer # NoBearer /\ verifySupabaseToken(c.bearer) = AuthError THEN AuthError
  ELSE IF c.bearer # NoBearer /\ verifySupabaseToken(c.bearer) # NoUser
    THEN verifySupabaseToken(c.bearer)
  ELSE IF devAuthBypassActive
    THEN IF c.devUserId # NoHeader THEN c.devUserId ELSE Field(env, "devUserId")
  ELSE NoUser

\* The reply of the authentication step, NoReply when the handler goes on: 401
\* from authenticateRequest, 500 from the framework when it threw.
AuthReply(c) ==
  IF authenticateRequest(c) = AuthError THEN Reply(500, "Internal Server Error")
  ELSE IF authenticateRequest(c) = NoUser THEN UNAUTHORIZED
  ELSE NoReply

\* What the payment provider answers to createCharge.
ProviderOutcomes == {"ok", "incomplete", "error"}

\* POST /commerce/create-charge: the reply.
CreateChargeReply(auth, sku, provider) ==
  IF auth = NoUser THEN UNAUTHORIZED
  ELSE IF env.coinbaseApiKey = ""
    THEN Reply(501, "COINBASE_COMMERCE_API_KEY not set in .env.")
  ELSE IF sku \notin CatalogSkus THEN Reply(400, "Unknown SKU.")
  ELSE IF provider = "incomplete"
    THEN Reply(502, "Coinbase response missing hosted_url or id.")
  ELSE IF provider = "error" THEN Reply(502, "Create charge failed")
  ELSE OK

\* Variant: the order row is inserted before the provider is called.
CreateChargeInsertFirst(auth, sku, provider) ==
  /\ LET k == Cardinality(orders) + 1
         row == [order_id |-> OrderId(k), user_id |-> auth, sku |-> sku,
                 coinbase_charge_id |-> ChargeId(k),
                 coinbase_code |-> Code(k),
                 status |-> "created", fulfilled_at |-> NoTime]
     IN IF CreateChargeReply(auth, sku, provider).code \in {200, 502}
          THEN orders' = orders \cup {row}
          ELSE UNCHANGED orders
  /\ UNCHANGED <<arcade, env, wallets, transactions, play_sessions, clock, wh, st>>

\* POST /commerce/create-charge: the order row is inserted after createCharge
\* has returned a hosted url and a charge id.
CreateCharge(auth, sku, provider) ==
  /\ LET k == Cardinality(orders) + 1
         row == [order_id |-> OrderId(k), user_id |-> auth, sku |-> sku,
                 coinbase_charge_id |-> ChargeId(k),
                 coinbase_code |-> Code(k),
                 status |-> "created", fulfilled_at |-> NoTime]
     IN IF CreateChargeReply(auth, sku, provider) = OK
          THEN orders' = orders \cup {row}
          ELSE UNCHANGED orders
  /\ UNCHANGED <<arcade, env, wallets, transactions, play_sessions, clock, wh, st>>

\* GET /wallet/me: getWallet creates the row when there is none.
WalletMe(auth) ==
  /\ IF auth = NoUser
       THEN UNCHANGED wallets
       ELSE wallets' = ensureWallet(wallets, auth)
  /\ UNCHANGED <<arcade, env, orders, transactions, play_sessions, clock, wh, st>>

\* body.gameId: a string, a blank string, or no string at all.
NoGame == "<none>"
GameInputs == GameIds \cup {" ", NoGame}
Trim(g) == IF g = " " THEN "" ELSE g

StIdle == [pc |-> "idle", userId |-> NoUser, gameId |-> NoGame, now |-> NoTime,
           wallet |-> NoWallet]

\* Variant: no exclusivity pre-check.
existingSessionNever(userId, now) == FALSE

\* Variant: a session still blocks a new start at the instant it expires.
existingSessionInclusive(userId, now) ==
  \E s \in play_sessions : s.user_id = userId /\ s.expires_at >= now

\* SELECT 1 FROM play_sessions WHERE user_id = ? AND expires_at > ? LIMIT 1
existingSession(userId, now) ==
  \E s \in play_sessions : s.user_id = userId /\ s.expires_at > now

\* POST /play/start up to the exclusivity pre-check: the reply, NoReply when the
\* handler goes on.
StartPrecheckReply(auth, gameId) ==
  IF auth = NoUser THEN UNAUTHORIZED
  ELSE IF gameId = NoGame \/ Trim(gameId) = "" THEN Reply(400, "gameId is required.")
  ELSE IF existingSession(auth, clock) THEN Reply(409, "ACTIVE_SESSION_EXISTS")
  ELSE NoReply

\* The starts that have passed the pre-check and not yet ended.
StartsInFlight == {p \in Procs : st[p].pc # "idle"}

\* POST /play/start up to the exclusivity pre-check.
StartPrecheck(p, auth, gameId) ==
  /\ st[p].pc = "idle"
  /\ IF StartPrecheckReply(auth, gameId) # NoReply
       THEN UNCHANGED st
       ELSE st' = [st EXCEPT ![p] = [pc |-> "wallet", userId |-> auth,
                                     gameId |-> gameId, now |-> clock,
                                     wallet |-> NoWallet]]
  /\ UNCHANGED <<arcade, env, db, clock, wh>>

\* const wallet = getWallet(db, userId), before the transaction.
StartGetWallet(p) ==
  /\ st[p].pc = "wallet"
  /\ wallets' = ensureWallet(wallets, st[p].userId)
  /\ st' = [st EXCEPT ![p].pc = "tx", ![p].wallet = wallets'[st[p].userId]]
  /\ UNCHANGED <<arcade, env, orders, transactions, play_sessions, clock, wh>>

\* Variant: the UPDATE has no "AND credits >= 1".
consumeCreditOkAlways(ws, userId) == TRUE

\* Variant: the UPDATE of consumeCredit writes nothing.
consumeCreditKeep(ws, userId) == ensureWallet(ws, userId)

\* consumeCredit: UPDATE wallets SET credits = credits - 1 WHERE user_id = ? AND
\* credits >= 1; consumeCreditOk is result.changes > 0.
consumeCreditOk(ws, userId) == ensureWallet(ws, userId)[userId].credits >= 1
consumeCredit(ws, userId) ==
  IF consumeCreditOk(ws, userId)
    THEN [ensureWallet(ws, userId) EXCEPT ![userId].credits = @ - 1]
    ELSE ensureWallet(ws, userId)

\* Variant: the credit is tried before the pass.
StartModeCreditFirst(wallet, ws, userId, t) ==
  IF wallet.credits >= 1 /\ consumeCreditOk(ws, userId) THEN "credit"
  ELSE IF hasActivePass(wallet, t) THEN "pass"
  ELSE "none"

\* The mode the transaction of /play/start settles on from the wallet the
\* handler read before it: "pass", "credit", or "none" when it returns null.
StartMode(wallet, ws, userId, t) ==
  IF hasActivePass(wallet, t) THEN "pass"
  ELSE IF wallet.credits >= 1
    THEN IF consumeCreditOk(ws, userId) THEN "credit" ELSE "none"
  ELSE "none"

\* Variant: the transaction step always answers 200.
StartTxReplyOk(mode) == OK

\* The reply of the transaction step.
StartTxReply(mode) == IF mode = "none" THEN Reply(403, "INSUFFICIENT_CREDITS") ELSE OK

\* Variant: every play transaction is recorded with delta_credits 0.
playTxNoDelta(userId, gameId, mode, playToken) ==
  [user_id |-> userId, kind |-> "play", sku |-> "", delta_credits |-> 0,
   meta |-> [game_id |-> gameId, play_token |-> playToken, mode |-> mode]]

\* recordPlayTransaction: the row it inserts into transactions.
playTx(userId, gameId, mode, playToken) ==
  [user_id |-> userId, kind |-> "play", sku |-> "",
   delta_credits |-> IF mode = "credit" THEN 0 - 1 ELSE 0,
   meta |-> [game_id |-> gameId, play_token |-> playToken, mode |-> mode]]

\* randomBytes(24).toString('base64url'): a token no session has yet.
FreshToken == <<"tok", Cardinality(play_sessions) + 1>>

\* tx = db.transaction of /play/start: the debit, the session row and the play
\* transaction commit together; null gives 403.
StartTx(p) ==
  /\ st[p].pc = "tx"
  /\ LET userId == st[p].userId
         gameId == Trim(st[p].gameId)
         mode == StartMode(st[p].wallet, wallets, userId, clock)
         expiresAt == st[p].now + PLAY_SESSION_DURATION_SECONDS
         session == [play_token |-> FreshToken, user_id |-> userId, game_id |-> gameId,
                     mode |-> mode, expires_at |-> expiresAt]
     IN IF mode = "none"
          THEN UNCHANGED <<wallets, play_sessions, transactions>>
          ELSE /\ wallets' = IF mode = "credit" THEN consumeCredit(wallets, userId)
                             ELSE wallets
               /\ play_sessions' = play_sessions \cup {session}
               /\ transactions' =
                    transactions (+) SetToBag({playTx(userId, gameId, mode, FreshToken)})
  /\ st' = [st EXCEPT ![p] = StIdle]
  /\ UNCHANGED <<arcade, env, orders, clock, wh>>

\* Variant: a failure inside the transaction keeps the debit already made.
StartAbortPartial(p) ==
  /\ st[p].pc # "idle"
  /\ wallets' = IF st[p].pc = "tx" THEN consumeCredit(wallets, st[p].userId)
                ELSE wallets
  /\ st' = [st EXCEPT ![p] = StIdle]
  /\ UNCHANGED <<arcade, env, orders, transactions, play_sessions, clock, wh>>

\* The handler stops before or inside its transaction, which is rolled back.
StartAbort(p) ==
  /\ st[p].pc # "idle"
  /\ st' = [st EXCEPT ![p] = StIdle]
  /\ UNCHANGED <<arcade, env, db, clock, wh>>

\* POST /play/start handled without another request in between: the reply.
StartReply(auth, gameId) ==
  IF StartPrecheckReply(auth, gameId) # NoReply
    THEN StartPrecheckReply(auth, gameId)
    ELSE StartTxReply(StartMode(ensureWallet(wallets, auth)[auth], wallets, auth, clock))

\* The tokens a caller may present: the issued ones, one never issued, none.
NoToken == <<>>
TokenInputs == {<<"tok", k>> : k \in 1..(MaxSessions + 1)} \cup {NoToken}

\* Variant: a token is still good at the instant it expires.
VerifyReplyLate(token) ==
  IF token = NoToken THEN Reply(400, "token query parameter is required.")
  ELSE IF \A s \in play_sessions : s.play_token # token
    THEN Reply(200, "INVALID_TOKEN")
  ELSE IF (CHOOSE s \in play_sessions : s.play_token = token).expires_at < clock
    THEN Reply(200, "TOKEN_EXPIRED")
  ELSE OK

\* GET /play/verify: the reply.
VerifyReply(token) ==
  IF token = NoToken THEN Reply(400, "token query parameter is required.")
  ELSE IF \A s \in play_sessions : s.play_token # token
    THEN Reply(200, "INVALID_TOKEN")
  ELSE IF (CHOOSE s \in play_sessions : s.play_token = token).expires_at <= clock
    THEN Reply(200, "TOKEN_EXPIRED")
  ELSE OK

\* GET /play/verify: what an ok reply carries besides ok.
VerifyBody(token) ==
  LET session == CHOOSE s \in play_sessions : s.play_token = token
  IN [gameId |-> session.game_id, mode |-> session.mode,
      expiresAt |-> session.expires_at]

\* Variant: a verification of a known token restarts its session length.
VerifyRefreshing(token) ==
  /\ VerifyReply(token).code > 0
  /\ play_sessions' =
       {IF s.play_token = token
          THEN [s EXCEPT !.expires_at = clock + PLAY_SESSION_DURATION_SECONDS]
          ELSE s : s \in play_sessions}
  /\ UNCHANGED <<arcade, env, orders, wallets, transactions, clock, wh, st>>

\* GET /play/verify reads and writes nothing.
Verify(token) ==
  /\ VerifyReply(token).code > 0
  /\ UNCHANGED vars

\* Variant: the end signal of the client expires the session at once.
PlayEndExpiring(token) ==
  /\ token # NoToken
  /\ play_sessions' =
       {IF s.play_token = token /\ s.expires_at > clock
          THEN [s EXCEPT !.expires_at = clock]
          ELSE s : s \in play_sessions}
  /\ UNCHANGED <<arcade, env, orders, wallets, transactions, clock, wh, st>>

\* POST /play/end, which the game page sends when a game ends and whose reply
\* it ignores: the server registers no such route and does nothing.
PlayEnd(token) ==
  /\ token # NoToken
  /\ UNCHANGED vars

\* The requests of the API server as they arrive, with what they carry to
\* identify the sender: each handler begins with authenticateRequest and ends
\* there when that gave no user id.
Authenticated(c) == authenticateRequest(c) \in Users

WalletMeRequest(c) ==
  IF Authenticated(c) THEN WalletMe(authenticateRequest(c)) ELSE UNCHANGED vars

CreateChargeRequest(c, sku, provider) ==
  IF Authenticated(c)
    THEN CreateCharge(authenticateRequest(c), sku, provider)
    ELSE UNCHANGED vars

StartRequest(p, c, gameId) ==
  /\ st[p].pc = "idle"
  /\ IF Authenticated(c)
       THEN StartPrecheck(p, authenticateRequest(c), gameId)
       ELSE UNCHANGED vars

(* ------------------------------------------------------------------ time *)
PassSeconds == SKU_CATALOG.PASS_60_MIN.passMinutes * 60
TickSteps == {PLAY_SESSION_DURATION_SECONDS, PassSeconds}

\* The number of steps the clock has made to reach t.
Ticks(t) == (t \div PassSeconds) + ((t % PassSeconds) \div PLAY_SESSION_DURATION_SECONDS)

\* The wall clock advances.
Tick(d) ==
  /\ clock' = clock + d
  /\ UNCHANGED <<arcade, env, db, wh, st>>

(* ------------------------------------------------------- the Arcade page *)
\* The machines on the floor, in rows of three (ARCADE_ROWS), and the rows the
\* model puts on the floor.
ARCADE_ROWS == <<{"flappy", "snake", "breakout"}, {"pong", "asteroids", "pacman"}>>
MaxRows == 1
Machines == UNION {ARCADE_ROWS[r] : r \in 1..MaxRows}

\* JavaScript's null, for busyGame, lockedReason and error.
Null == "null"

\* The React state of a freshly mounted Arcade component (useState's initial
\* values), with no machine pressed and no /play/start request sent.
\* requests: the /play/start requests the browser has sent and not yet had an
\* answer to; mounted tells whether the component that sent it is still the
\* one on the page.
ArcadeMounted ==
  [route |-> "arcade", busyGame |-> Null, lockedReason |-> Null, error |-> Null,
   prizeToast |-> FALSE, pressed |-> {}, requests |-> <<>>]

\* The component leaves the page: its state is gone, its requests stay in
\* flight.
Unmounted(requests) ==
  [k \in 1..Len(requests) |-> [requests[k] EXCEPT !.mounted = FALSE]]
Unmount(route) ==
  [ArcadeMounted EXCEPT !.route = route, !.requests = Unmounted(arcade.requests)]

\* getMachineStatus without its second test: a pending start locks no other
\* machine.
getMachineStatusOwnOnly(gameId) ==
  IF arcade.busyGame = gameId THEN "busy"
  ELSE IF arcade.lockedReason = "session" THEN "locked"
  ELSE "available"

getMachineStatus(gameId) ==
  IF arcade.busyGame = gameId THEN "busy"
  ELSE IF arcade.busyGame # Null THEN "locked"
  ELSE IF arcade.lockedReason = "session" THEN "locked"
  ELSE "available"

\* ArcadeMachine: only an available machine can be clicked.
isClickable(gameId) == getMachineStatus(gameId) = "available"

\* startGame up to its await: the state it sets and the request it sends.
startGame(a, gameId) ==
  [a EXCEPT !.error = Null,
            !.lockedReason = Null,
            !.busyGame = gameId,
            !.requests = Append(@, [gameId |-> gameId, mounted |-> TRUE])]

\* A click on a machine. React re-renders the page once the click's handler
\* has run, so the next click meets the new statuses.
handleClick(gameId) ==
  /\ arcade.route = "arcade"
  /\ Len(arcade.requests) < MaxInFlight
  /\ arcade' = IF ~isClickable(gameId) THEN arcade
               ELSE startGame([arcade EXCEPT !.pressed = @ \cup {gameId}], gameId)
  /\ UNCHANGED <<env, db, clock, wh, st>>

\* What fetch can bring back for a /play/start request: the server's replies,
\* or nothing (fetch throws).
FetchThrew == Reply(0, "Failed to fetch")
StartResponses ==
  {OK, Reply(403, "INSUFFICIENT_CREDITS"), Reply(409, "ACTIVE_SESSION_EXISTS"),
   UNAUTHORIZED, Reply(500, ""), FetchThrew}

\* The error the page shows for a response that is not a success.
ErrorText(res) ==
  IF res.error = "INSUFFICIENT_CREDITS" THEN "Not enough credits!"
  ELSE IF res.error = "ACTIVE_SESSION_EXISTS" THEN "You are already playing a game."
  ELSE IF res.error # "" THEN res.error
  ELSE "Request failed"

\* startGame after its await, on a response that is not a success.
startGameFailed(a, res) ==
  [a EXCEPT !.error = ErrorText(res),
            !.lockedReason = IF res.error = "INSUFFICIENT_CREDITS" THEN "credits"
                             ELSE IF res.error = "ACTIVE_SESSION_EXISTS" THEN "session"
                             ELSE @,
            !.busyGame = Null]

Without(requests, k) ==
  [j \in 1..(Len(requests) - 1) |-> IF j < k THEN requests[j] ELSE requests[j + 1]]

\* The answer to request k arrives and startGame resumes. A success navigates
\* to the play gate; the state updates of a component that has left the page
\* are dropped.
StartResponse(k, res) ==
  /\ k \in 1..Len(arcade.requests)
  /\ LET rest == [arcade EXCEPT !.requests = Without(@, k)]
     IN  arcade' =
           IF res = OK
             THEN [ArcadeMounted EXCEPT !.route = "play",
                                        !.requests = Unmounted(rest.requests)]
           ELSE IF arcade.requests[k].mounted THEN startGameFailed(rest, res)
           ELSE rest
  /\ UNCHANGED <<env, db, clock, wh, st>>

\* The error toast is cleared 5 seconds after it was set.
ErrorTimeout ==
  /\ arcade.error # Null
  /\ arcade' = [arcade EXCEPT !.error = Null]
  /\ UNCHANGED <<env, db, clock, wh, st>>

handlePrizeCounter ==
  /\ arcade.route = "arcade"
  /\ arcade' = [arcade EXCEPT !.prizeToast = TRUE]
  /\ UNCHANGED <<env, db, clock, wh, st>>

\* The prize toast is cleared 3 seconds after it was set.
PrizeToastTimeout ==
  /\ arcade.prizeToast
  /\ arcade' = [arcade EXCEPT !.prizeToast = FALSE]
  /\ UNCHANGED <<env, db, clock, wh, st>>

\* The player walks to the kiosk (BUY CREDITS, the coin machine) and comes
\* back: the route mounts a new Arcade component.
LeaveForKiosk ==
  /\ arcade.route = "arcade"
  /\ arcade' = Unmount("kiosk")
  /\ UNCHANGED <<env, db, clock, wh, st>>

EnterArcade ==
  /\ arcade.route = "kiosk"
  /\ arcade' = [arcade EXCEPT !.route = "arcade"]
  /\ UNCHANGED <<env, db, clock, wh, st>>

(* --------------------------------------------------------- specification *)
\* The wallets table as the servers find it at startup: one user has a wallet
\* with one credit left from earlier purchases, the other has no row yet.
wallets0 ==
  [u \in Users |-> IF u = "u1" THEN Wallet(1, NoTime) ELSE NoWallet]

Init ==
  /\ env = getEnv(ConfiguredEnv)
  /\ wallets = wallets0
  /\ orders = {}
  /\ transactions = EmptyBag
  /\ play_sessions = {}
  /\ clock = 0
  /\ wh = [p \in Procs |-> WhIdle]
  /\ st = [p \in Procs |-> StIdle]
  /\ arcade = ArcadeMounted

\* A new activation takes the first free slot.
FirstIdle(f, p) == f[p].pc = "idle" /\ \A q \in Procs : q < p => f[q].pc # "idle"

\* The skus, users and games the requests of the model name.
SkuInputs == {"CREDITS_10", "PASS_60_MIN", "BOGUS"}
Buyers == {"u1"}
Players == {"u1"}

\* The requests of the commerce side, with at most maxOrders orders created and
\* at most maxInFlight handler activations at a time.
Commerce(maxOrders, maxInFlight) ==
  \/ \E auth \in Buyers \cup {NoUser}, sku \in SkuInputs,
        provider \in ProviderOutcomes :
        Cardinality(orders) < maxOrders /\ CreateCharge(auth, sku, provider)
  \/ \E p \in Procs, r \in Requests :
        /\ InFlight < maxInFlight
        /\ FirstIdle(wh, p)
        /\ WebhookReceive(p, SigHeader(r.kind, r.body), r.body)
  \/ \E p \in Procs : WebhookStamp(p)
  \/ \E p \in Procs : WebhookFulfill(p)
  \/ \E p \in Procs : WebhookAbort(p)

\* The requests of the play side, with at most maxSessions sessions started.
Play(maxSessions, maxInFlight) ==
  \/ \E auth \in Users \cup {NoUser} : WalletMe(auth)
  \/ \E p \in Procs, auth \in Players \cup {NoUser}, gameId \in GameInputs :
        /\ InFlight < maxInFlight
        /\ FirstIdle(st, p)
        /\ StartPrecheckReply(auth, gameId) = NoReply =>
             Cardinality(play_sessions) + Cardinality(StartsInFlight) < maxSessions
        /\ StartPrecheck(p, auth, gameId)
  \/ \E p \in Procs : StartGetWallet(p)
  \/ \E p \in Procs : StartTx(p)
  \/ \E p \in Procs : StartAbort(p)
  \/ \E token \in TokenInputs : Verify(token)
  \/ \E token \in TokenInputs : PlayEnd(token)

\* The clock makes at most maxTicks steps.
Time(maxTicks) == \E d \in TickSteps : Ticks(clock) < maxTicks /\ Tick(d)

\* Both servers, their handlers interleaved.
Next ==
  \/ Commerce(MaxRaceOrders, MaxInFlight)
  \/ Play(MaxSessions, MaxInFlight)
  \/ Time(MaxRaceTicks)

Spec == Init /\ [][Next]_vars

\* The webhook server alone, one delivery handled after another.
SeqNext == Commerce(MaxOrders, 1) \/ Time(MaxTicks)

SeqSpec == Init /\ [][SeqNext]_vars

\* Both servers, one request handled after another: no handler starts while
\* another is between its steps.
SerialNext ==
  \/ Commerce(MaxRaceOrders, 1)
  \/ Play(MaxSessions, 1)
  \/ Time(MaxTicks)

SerialSpec == Init /\ [][SerialNext]_vars

\* The fulfilling event of the k-th order as the provider delivers it, and its
\* delivery to a free handler.
ConfirmedFor(k) ==
  [json |-> TRUE, type |-> "charge:confirmed", order_id |-> OrderId(k),
   id |-> ChargeId(k), code |-> Code(k), meta_user |-> "u1",
   meta_sku |-> "CREDITS_50"]

Redeliver(p, k) ==
  /\ InFlight < 1
  /\ FirstIdle(wh, p)
  /\ WebhookReceive(p, SigHeader("valid", ConfirmedFor(k)), ConfirmedFor(k))

\* A handler runs to one of its ends (its statements are synchronous); the
\* provider keeps redelivering the fulfilling event of every order; and a
\* delivery that reaches the status stamp or the transaction again and again
\* does not fail there forever.
Redelivery ==
  \A p \in Procs : \A k \in 1..MaxRaceOrders :
    /\ WF_vars(WebhookStamp(p) \/ WebhookFulfill(p) \/ WebhookAbort(p))
    /\ SF_vars(Redeliver(p, k))
    /\ SF_vars(WebhookStamp(p) /\ wh[p].order_id = OrderId(k)
                  /\ wh[p].eventType \in fulfillOnEvents)
    /\ SF_vars(WebhookFulfill(p) /\ wh[p].order_id = OrderId(k))

\* The webhook server, one delivery at a time, under that provider.
RedeliveryNext == Commerce(MaxRaceOrders, 1) \/ Time(MaxRaceTicks)

RedeliverySpec == Init /\ [][RedeliveryNext]_vars /\ Redelivery

\* Both servers started under any configuration, one request handled after
\* another, every API request authenticated from what it carries.
ConfigInit ==
  /\ env \in {getEnv(processEnv) : processEnv \in ProcessEnvs}
  /\ wallets = wallets0
  /\ orders = {}
  /\ transactions = EmptyBag
  /\ play_sessions = {}
  /\ clock = 0
  /\ wh = [p \in Procs |-> WhIdle]
  /\ st = [p \in Procs |-> StIdle]
  /\ arcade = ArcadeMounted

ConfigNext ==
  \/ \E c \in Credentials : WalletMeRequest(c)
  \/ \E c \in Credentials, sku \in SkuInputs, provider \in ProviderOutcomes :
        Cardinality(orders) < MaxRaceOrders /\ CreateChargeRequest(c, sku, provider)
  \/ \E p \in Procs, r \in Requests :
        /\ InFlight < 1
        /\ FirstIdle(wh, p)
        /\ WebhookReceive(p, SigHeader(r.kind, r.body), r.body)
  \/ \E p \in Procs : WebhookStamp(p)
  \/ \E p \in Procs : WebhookFulfill(p)
  \/ \E p \in Procs : WebhookAbort(p)
  \/ \E p \in Procs, c \in Credentials, gameId \in GameInputs :
        /\ InFlight < 1
        /\ FirstIdle(st, p)
        /\ Cardinality(play_sessions) < MaxConfigSessions
        /\ StartRequest(p, c, gameId)
  \/ \E p \in Procs : StartGetWallet(p)
  \/ \E p \in Procs : StartTx(p)
  \/ \E p \in Procs : StartAbort(p)

ConfigSpec == ConfigInit /\ [][ConfigNext]_vars

\* Both servers with any user buying and playing, so that the first access to
\* a wallet can come from /wallet/me, from /play/start handlers in flight
\* together, or from a grant.
FirstAccessNext ==
  \/ \E auth \in Users : WalletMe(auth)
  \/ \E auth \in Users, sku \in CatalogSkus :
        Cardinality(orders) < MaxRaceOrders /\ CreateCharge(auth, sku, "ok")
  \/ \E p \in Procs, r \in Requests :
        /\ InFlight < MaxInFlight
        /\ FirstIdle(wh, p)
        /\ WebhookReceive(p, SigHeader(r.kind, r.body), r.body)
  \/ \E p \in Procs : WebhookStamp(p)
  \/ \E p \in Procs : WebhookFulfill(p)
  \/ \E p \in Procs : WebhookAbort(p)
  \/ \E p \in Procs, auth \in Users, gameId \in GameIds :
        /\ InFlight < MaxInFlight
        /\ FirstIdle(st, p)
        /\ Cardinality(play_sessions) + Cardinality(StartsInFlight) < MaxSessions
        /\ StartPrecheck(p, auth, gameId)
  \/ \E p \in Procs : StartGetWallet(p)
  \/ \E p \in Procs : StartTx(p)
  \/ \E p \in Procs : StartAbort(p)

FirstAccessSpec == Init /\ [][FirstAccessNext]_vars

\* The webhook server started on a database that holds an order created under
\* an earlier catalog, whose sku the present catalog does not have.
RetiredSku == "BOGUS"
RetiredOrder ==
  [order_id |-> OrderId(1), user_id |-> "u1", sku |-> RetiredSku,
   coinbase_charge_id |-> ChargeId(1), coinbase_code |-> Code(1),
   status |-> "created", fulfilled_at |-> NoTime]

RetiredInit ==
  /\ env = getEnv(ConfiguredEnv)
  /\ wallets = wallets0
  /\ orders = {RetiredOrder}
  /\ transactions = EmptyBag
  /\ play_sessions = {}
  /\ clock = 0
  /\ wh = [p \in Procs |-> WhIdle]
  /\ st = [p \in Procs |-> StIdle]
  /\ arcade = ArcadeMounted

RetiredNext == Commerce(MaxOrders, 1) \/ Time(MaxRaceTicks)

RetiredSpec == RetiredInit /\ [][RetiredNext]_vars

\* Both servers started on a new database file: openDb has created the tables
\* and no row exists.
FreshInit ==
  /\ env = getEnv(ConfiguredEnv)
  /\ wallets = [u \in Users |-> NoWallet]
  /\ orders = {}
  /\ transactions = EmptyBag
  /\ play_sessions = {}
  /\ clock = 0
  /\ wh = [p \in Procs |-> WhIdle]
  /\ st = [p \in Procs |-> StIdle]
  /\ arcade = ArcadeMounted

FreshSpec == FreshInit /\ [][Next]_vars

\* Both servers, one request at a time, with two purchases and a session, so
\* that a wallet that holds a pass is granted to again and played from.
StackingNext ==
  \/ Commerce(MaxOrders, 1)
  \/ Play(MaxConfigSessions, 1)
  \/ Time(MaxTicks)

StackingSpec == Init /\ [][StackingNext]_vars

\* The commerce handlers with two orders and deliveries handled in parallel.
ParallelNext == Commerce(MaxOrders, MaxInFlight)

ParallelSpec == Init /\ [][ParallelNext]_vars

\* The Arcade page alone, against every answer /play/start can give. Every
\* fetch settles: a pending request is answered or fails.
ArcadeNext ==
  \/ \E gameId \in Machines : handleClick(gameId)
  \/ \E k \in 1..MaxInFlight, res \in StartResponses : StartResponse(k, res)
  \/ ErrorTimeout
  \/ handlePrizeCounter
  \/ PrizeToastTimeout
  \/ LeaveForKiosk
  \/ EnterArcade

FetchSettles ==
  WF_vars(\E k \in 1..MaxInFlight, res \in StartResponses : StartResponse(k, res))

ArcadeSpec == Init /\ [][ArcadeNext]_vars /\ FetchSettles

(* ================================================================ ledger *)
\* The credits a user holds when the servers start.
InitialCredits(u) == wallets0[u].credits

\* The credits the purchase Transactions of a user add up to, and the number of
\* credits the play Transactions of a user took.
PurchasedCredits(u) == DeltaCredits(u, "purchase")
CreditDebits(u) == 0 - DeltaCredits(u, "play")

\* The wallet of u holds its initial credits, plus every grant, minus every debit.
Ledger(u) ==
  wallets[u].credits = InitialCredits(u) + PurchasedCredits(u) - CreditDebits(u)

\* The orders of a user that are marked fulfilled, and those among them for a pass.
Fulfilled(u) == {o \in orders : o.user_id = u /\ o.fulfilled_at # NoTime}
FulfilledPasses(u) == {o \in Fulfilled(u) : SKU_CATALOG[o.sku].passMinutes > 0}

\* The wallet of u holds one grant for each of its fulfilled orders, no more and
\* no less: the credits add up, and the pass runs at least one pass length from
\* the latest fulfilment and at most one pass length per fulfilled pass from now.
OneGrantEach(u) ==
  /\ wallets[u].credits =
       InitialCredits(u)
       + Total(Fulfilled(u),
               [o \in Fulfilled(u) |-> SKU_CATALOG[o.sku].grantCredits])
  /\ IF FulfilledPasses(u) = {}
       THEN wallets[u].pass_expires_at = wallets0[u].pass_expires_at
       ELSE /\ \A o \in FulfilledPasses(u) :
                  wallets[u].pass_expires_at
                    >= o.fulfilled_at + SKU_CATALOG[o.sku].passMinutes * 60
            /\ wallets[u].pass_expires_at
                 <= clock
                    + Total(FulfilledPasses(u),
                            [o \in FulfilledPasses(u) |->
                               SKU_CATALOG[o.sku].passMinutes * 60])

(* ==================================================================== C1 *)
\* The delivery handled by activation p carries an allow-listed event and ends
\* with this step, at the idempotency gate or by the fulfilment transaction.
FulfillingDeliveryEnds(p) ==
  /\ wh[p].eventType \in fulfillOnEvents
  /\ WebhookStamp(p) \/ WebhookFulfill(p)
  /\ wh'[p].pc = "idle"

\* C1: when deliveries are handled one after another, every time a verified
\* delivery of an allow-listed event for an order ends, exactly one purchase
\* Transaction exists for that order and the owner's wallet holds exactly one
\* grant for each fulfilled order, however many such deliveries came before.
C1_ExactlyOneGrant ==
  [][\A p \in Procs : \A o \in orders :
       (o.order_id = wh[p].order_id /\ FulfillingDeliveryEnds(p))
         => (PurchaseCount(o.order_id) = 1 /\ OneGrantEach(o.user_id))']_vars

\* A second delivery of an allow-listed event has found its order fulfilled.
C1_Witness ==
  \E p \in Procs : \E o \in orders :
    /\ wh[p].pc = "stamp"
    /\ wh[p].eventType \in fulfillOnEvents
    /\ wh[p].order_id = o.order_id
    /\ wh[p].fulfilled_at # NoTime
    /\ PurchaseCount(o.order_id) = 1

(* ==================================================================== C2 *)
\* C2: when deliveries for one order are handled in parallel, at most one
\* purchase Transaction is written for the order and at most one grant reaches
\* the wallet.
C2_AtMostOneGrant ==
  \A o \in orders :
    /\ PurchaseCount(o.order_id) <= 1
    /\ PurchasedCredits(o.user_id) <= SKU_CATALOG[o.sku].grantCredits

(* ==================================================================== C3 *)
\* C3: in every state, whatever handler has stopped wherever, an order is
\* marked fulfilled exactly when a purchase Transaction exists for it, and every
\* wallet holds what the purchase Transactions of its user granted: the credits
\* of the ledger, and a pass once a pass was granted.
C3_MarkedIffGranted ==
  /\ \A o \in orders : (o.fulfilled_at # NoTime) <=> (PurchaseCount(o.order_id) >= 1)
  /\ \A u \in Users :
       /\ Ledger(u)
       /\ (\E t \in TxRows("purchase") :
             t.user_id = u /\ SKU_CATALOG[t.sku].passMinutes > 0)
            => wallets[u].pass_expires_at # NoTime

\* A delivery stopped after its status stamp and before its transaction: the
\* order carries the event and is neither marked nor granted.
C3_Witness ==
  \E o \in orders :
    /\ o.status \in fulfillOnEvents
    /\ o.fulfilled_at = NoTime
    /\ PurchaseCount(o.order_id) = 0
    /\ InFlight = 0

(* ==================================================================== C4 *)
\* C4: once fulfilled_at of an order is set, no step clears it or changes it.
C4_FulfilledAtSetOnce ==
  [][\A o \in orders :
       o.fulfilled_at # NoTime
         => \E n \in orders' :
              n.order_id = o.order_id /\ n.fulfilled_at = o.fulfilled_at]_vars

\* Two deliveries were in flight together; the order was marked by one of them
\* and the clock has moved since the other captured its instant.
C4_Witness ==
  \E p \in Procs : \E o \in orders :
    /\ wh[p].pc = "fulfill"
    /\ wh[p].order_id = o.order_id
    /\ o.fulfilled_at # NoTime
    /\ o.fulfilled_at # wh[p].now

(* ==================================================================== C5 *)
\* The request carries a signature, and the bytes it decodes to are not those
\* of HMAC-SHA256(secret, raw body).
SignatureDiffers(sigHeader, rawBody) ==
  /\ sigHeader # NoSig
  /\ BufferFromHex(sigHeader)
       # BufferFromHex(hmacSha256Hex(env.coinbaseWebhookSecret, rawBody))

OtherMeta(b, m) == [b EXCEPT !.meta_user = m[1], !.meta_sku = m[2]]

\* C6: every purchase Transaction credits the user and the sku stored on its
\* order, with the catalogue's amount for that sku; a user without a fulfilled
\* order has been granted nothing; and two verified deliveries that resolve to
\* the same order and differ only in metadata.user_id or metadata.sku leave the
\* handler with the same locals, hence lead to the same state.
C6_GrantFromOrderOnly ==
  /\ \A t \in TxRows("purchase") :
       \E o \in orders :
         /\ o.order_id = t.meta.order_id
         /\ t.user_id = o.user_id
         /\ t.sku = o.sku
         /\ t.delta_credits = SKU_CATALOG[o.sku].grantCredits
  /\ \A u \in Users :
       Fulfilled(u) = {}
         => (PurchasedCredits(u) = 0 /\ wallets[u].pass_expires_at = NoTime)
  /\ \A b \in EventBodies : \A m \in MetaChoices : \A o \in orders :
       WhLocals(b, o) = WhLocals(OtherMeta(b, m), o)

\* An order has been fulfilled, and no payload names its user and its sku in
\* its metadata: the verified delivery that fulfilled it named another user or
\* another sku.
C6_Witness ==
  \E o \in orders :
    /\ PurchaseCount(o.order_id) >= 1
    /\ \A m \in MetaChoices : m # <<o.user_id, o.sku>>

(* ==================================================================== C7 *)
\* The start handled by activation p read a wallet with a credit and no active
\* pass, and the credits were taken before its transaction runs.
LostTheCredit(p) ==
  /\ st[p].pc = "tx"
  /\ st[p].wallet.credits >= 1
  /\ ~hasActivePass(st[p].wallet, clock)
  /\ wallets[st[p].userId].credits = 0

\* C7: no wallet ever holds fewer than 0 credits; the credit debits of a user
\* never exceed the credits the user had and was granted; and a start that has
\* passed the pre-check with a credit another start has meanwhile taken is
\* answered 403 INSUFFICIENT_CREDITS.
C7_CreditsNeverNegative ==
  /\ \A u \in Users : wallets[u].credits >= 0
  /\ \A u \in Users : CreditDebits(u) <= InitialCredits(u) + PurchasedCredits(u)
  /\ \A p \in Procs :
       LostTheCredit(p)
         => StartTxReply(StartMode(st[p].wallet, wallets, st[p].userId, clock))
              = Reply(403, "INSUFFICIENT_CREDITS")

\* Two starts of one user passed the pre-check on the same single credit; one
\* has been debited and has its session, the other is about to run.
C7_Witness ==
  \E p \in Procs :
    /\ LostTheCredit(p)
    /\ st[p].wallet.credits = 1
    /\ \E s \in play_sessions : s.user_id = st[p].userId /\ s.mode = "credit"
    /\ PurchasedCredits(st[p].userId) = 0

(* ==================================================================== C8 *)
\* C8: under every interleaving of fulfilments and session starts, the credits
\* of a wallet are its initial credits plus the credits of every grant applied
\* minus the number of credit debits made.
C8_NoLostUpdate == \A u \in Users : Ledger(u)

\* A grant reached the wallet between a start's read of the wallet and its
\* debit: the start holds a stale row.
C8_Witness ==
  \E p \in Procs :
    /\ st[p].pc = "tx"
    /\ st[p].wallet.credits >= 1
    /\ PurchasedCredits(st[p].userId) > 0
    /\ wallets[st[p].userId].credits = st[p].wallet.credits + PurchasedCredits(st[p].userId)

(* ==================================================================== C9 *)
\* C9: the grant of a P-minute pass to a wallet whose pass expires at T > now
\* sets pass_expires_at to T + P minutes, and to a wallet without a pass or
\* with a pass that has expired (T <= now) sets it to now + P minutes.
C9_PassStacking ==
  [][\A p \in Procs : \A u \in Users :
       (/\ WebhookFulfill(p)
        /\ wh[p].effectiveUser = u
        /\ SKU_CATALOG[wh[p].effectiveSku].passMinutes > 0)
         => IF wallets[u].pass_expires_at # NoTime /\ wallets[u].pass_expires_at > clock
              THEN wallets'[u].pass_expires_at
                     = wallets[u].pass_expires_at
                       + SKU_CATALOG[wh[p].effectiveSku].passMinutes * 60
              ELSE wallets'[u].pass_expires_at
                     = clock + SKU_CATALOG[wh[p].effectiveSku].passMinutes * 60]_vars

\* A pass was granted on top of an unexpired one: the wallet's pass runs longer
\* than one pass length from now.
C9_Witness ==
  \E u \in Users :
    /\ Cardinality(FulfilledPasses(u)) = 2
    /\ wallets[u].pass_expires_at > clock + PassSeconds

(* =================================================================== C10 *)
\* The user has a PlaySession whose expires_at lies in the future.
ActiveSessionOf(u) ==
  \E s \in play_sessions : s.user_id = u /\ s.expires_at > clock

\* C10: a /play/start request for a game by a user who has a PlaySession with
\* expires_at in the future is answered 409 ACTIVE_SESSION_EXISTS, and its
\* handling inserts no PlaySession, debits no credit, appends no Transaction
\* and leaves no handler activation behind.
C10_ActiveSessionRejected ==
  /\ [](\A u \in Users : \A g \in GameIds :
          ActiveSessionOf(u)
            => StartPrecheckReply(u, g) = Reply(409, "ACTIVE_SESSION_EXISTS"))
  /\ [][\A p \in Procs : \A u \in Users : \A g \in GameIds :
          (ActiveSessionOf(u) /\ StartPrecheck(p, u, g))
            => UNCHANGED <<db, st>>]_vars

\* A user holds an unexpired session, bought with a credit, and a further start
\* request of that user can be received.
C10_Witness ==
  \E u \in Players :
    /\ ActiveSessionOf(u)
    /\ st[1].pc = "idle"
    /\ InFlight < MaxInFlight

(* =================================================================== C11 *)
\* The play sessions of u that have not expired.
ActiveSessions(u) == {s \in play_sessions : s.user_id = u /\ s.expires_at > clock}

\* C11: in every reachable state, also with /play/start requests of the same
\* user in flight together, each user has at most one PlaySession whose
\* expires_at is in the future.
C11_AtMostOneActiveSession ==
  \A u \in Users : Cardinality(ActiveSessions(u)) <= 1

(* =================================================================== C12 *)
\* The wallet of u as a request of u finds it (getWallet creates a missing row).
WalletOf(u) == ensureWallet(wallets, u)[u]

\* u has no pass running and has spent its last credit on a play session.
SpentLastCredit(u) ==
  /\ WalletOf(u).credits = 0
  /\ ~hasActivePass(WalletOf(u), clock)
  /\ \E s \in play_sessions : s.user_id = u /\ s.mode = "credit"

\* This step is the transaction of a start of a user holding c credits and no
\* running pass.
StartTxWithCredits(p, c) ==
  /\ StartTx(p)
  /\ WalletOf(st[p].userId).credits = c
  /\ ~hasActivePass(WalletOf(st[p].userId), clock)

\* The session a step has inserted.
NewSessions == play_sessions' \ play_sessions

\* C12 as stated: with requests handled one after another, once a user without
\* a pass has spent its last credit on a session, its next /play/start is
\* answered 403 INSUFFICIENT_CREDITS.
C12_SecondInsufficient ==
  \A u \in Players, g \in GameIds :
    SpentLastCredit(u) => StartReply(u, g) = Reply(403, "INSUFFICIENT_CREDITS")

\* C12 (amended): with requests handled one after another, for a user with
\* exactly 1 credit and no pass the transaction of the first /play/start
\* inserts a session with mode credit and leaves 0 credits; the next
\* /play/start is answered 409 ACTIVE_SESSION_EXISTS while that session is
\* unexpired and 403 INSUFFICIENT_CREDITS once it has expired, and leaves the
\* credits at 0.
C12_SecondRefused ==
  /\ [](\A u \in Players, g \in GameIds :
          SpentLastCredit(u) =>
            StartReply(u, g) = IF ActiveSessions(u) # {}
                                 THEN Reply(409, "ACTIVE_SESSION_EXISTS")
                                 ELSE Reply(403, "INSUFFICIENT_CREDITS"))
  /\ [][\A p \in Procs :
          /\ StartTxWithCredits(p, 1) =>
               /\ \E s \in NewSessions : s.user_id = st[p].userId /\ s.mode = "credit"
               /\ wallets'[st[p].userId].credits = 0
          /\ StartTxWithCredits(p, 0) => wallets'[st[p].userId].credits = 0]_vars

\* A user spent its only credit on a session that has expired since, and was
\* never granted anything.
C12_Witness ==
  \E u \in Players :
    /\ InitialCredits(u) = 1
    /\ SpentLastCredit(u)
    /\ PurchasedCredits(u) = 0
    /\ ActiveSessions(u) = {}
    /\ StartsInFlight = {}

(* =================================================================== C13 *)
\* The step appends exactly one play Transaction of user u with the given
\* delta_credits, and nothing else, to transactions.
AppendsOnePlayTx(u, delta) ==
  \E t \in BagToSet(transactions') :
    /\ transactions' = transactions (+) SetToBag({t})
    /\ t.user_id = u /\ t.kind = "play" /\ t.delta_credits = delta

\* The step inserts exactly one PlaySession, of user u in the given mode,
\* expiring one session length after the request's now.
InsertsOneSession(p, u, mode) ==
  /\ play_sessions \subseteq play_sessions'
  /\ Cardinality(NewSessions) = 1
  /\ \A s \in NewSessions :
       /\ s.user_id = u /\ s.mode = mode
       /\ s.expires_at = st[p].now + PLAY_SESSION_DURATION_SECONDS

\* C13: with requests handled one after another, the transaction of a
\* /play/start by a user with no active session, no active pass and C >= 1
\* credits succeeds in credit mode, leaves C - 1 credits, inserts exactly one
\* PlaySession with expires_at = now + 5 minutes and appends exactly one play
\* Transaction with delta_credits = -1.
C13_CreditStart ==
  [][\A p \in Procs :
       (/\ StartTx(p)
        /\ WalletOf(st[p].userId).credits >= 1
        /\ ~hasActivePass(WalletOf(st[p].userId), clock)
        /\ ActiveSessions(st[p].userId) = {})
       => /\ StartTxReply(StartMode(st[p].wallet, wallets, st[p].userId, clock)) = OK
          /\ wallets'[st[p].userId].credits = WalletOf(st[p].userId).credits - 1
          /\ InsertsOneSession(p, st[p].userId, "credit")
          /\ AppendsOnePlayTx(st[p].userId, 0 - 1)]_vars

\* After a grant of 10 credits to a wallet at 0 credits and one start, the user
\* holds 9 credits and one active session in credit mode.
C13_Witness ==
  \E u \in Players :
    /\ PurchasedCredits(u) = 10
    /\ CreditDebits(u) = InitialCredits(u) + 1
    /\ wallets[u].credits = 9
    /\ Cardinality(ActiveSessions(u)) = 1
    /\ \A s \in ActiveSessions(u) : s.mode = "credit"

(* =================================================================== C14 *)
\* C14: with requests handled one after another, the transaction of a
\* /play/start by a user with an active pass and no active session succeeds
\* with mode pass, leaves the wallet as it is whatever its credits, and
\* appends one play Transaction with delta_credits = 0.
C14_PassStart ==
  [][\A p \in Procs :
       (/\ StartTx(p)
        /\ hasActivePass(WalletOf(st[p].userId), clock)
        /\ ActiveSessions(st[p].userId) = {})
       => /\ StartTxReply(StartMode(st[p].wallet, wallets, st[p].userId, clock)) = OK
          /\ wallets' = wallets
          /\ InsertsOneSession(p, st[p].userId, "pass")
          /\ AppendsOnePlayTx(st[p].userId, 0)]_vars

\* A user with a running pass and a credit in the wallet has started a session
\* in pass mode and still holds every credit it had.
C14_Witness ==
  \E u \in Players :
    /\ \E s \in ActiveSessions(u) : s.mode = "pass"
    /\ hasActivePass(wallets[u], clock)
    /\ CreditDebits(u) = 0
    /\ wallets[u].credits = InitialCredits(u)
    /\ wallets[u].credits >= 1

(* =================================================================== C15 *)
\* C15: a /play/start by a user with no active session, no active pass and 0
\* credits is answered 403 INSUFFICIENT_CREDITS, and its transaction, also when
\* other handlers run between its steps, inserts no PlaySession, appends no
\* Transaction and leaves the credits at 0.
C15_InsufficientCredits ==
  /\ [](\A u \in Players, g \in GameIds :
          (/\ WalletOf(u).credits = 0
           /\ ~hasActivePass(WalletOf(u), clock)
           /\ ActiveSessions(u) = {})
          => StartReply(u, g) = Reply(403, "INSUFFICIENT_CREDITS"))
  /\ [][\A p \in Procs :
          (StartTxWithCredits(p, 0) /\ ActiveSessions(st[p].userId) = {})
          => /\ StartTxReply(StartMode(st[p].wallet, wallets, st[p].userId, clock))
                  = Reply(403, "INSUFFICIENT_CREDITS")
             /\ play_sessions' = play_sessions
             /\ transactions' = transactions
             /\ wallets'[st[p].userId].credits = 0]_vars

\* A start of a user with 0 credits, no pass and no active session has reached
\* its transaction.
C15_Witness ==
  \E p \in Procs :
    /\ st[p].pc = "tx"
    /\ st[p].wallet.credits = 0
    /\ ~hasActivePass(st[p].wallet, clock)
    /\ ActiveSessions(st[p].userId) = {}

(* =================================================================== C16 *)
\* The tokens no start has issued.
NeverIssued ==
  {token \in TokenInputs \ {NoToken} : \A s \in play_sessions : s.play_token # token}

\* C16: verify on the token of a session returns that session's game id and
\* mode as long as now < expires_at and TOKEN_EXPIRED once now >= expires_at; a
\* token that has answered TOKEN_EXPIRED answers it ever after; a token that
\* was never issued gets INVALID_TOKEN.
C16_VerifyByExpiry ==
  /\ [](\A s \in play_sessions :
          IF clock < s.expires_at
            THEN /\ VerifyReply(s.play_token) = OK
                 /\ VerifyBody(s.play_token).gameId = s.game_id
                 /\ VerifyBody(s.play_token).mode = s.mode
            ELSE VerifyReply(s.play_token) = Reply(200, "TOKEN_EXPIRED"))
  /\ [](\A token \in NeverIssued : VerifyReply(token) = Reply(200, "INVALID_TOKEN"))
  /\ [][\A token \in TokenInputs :
          VerifyReply(token) = Reply(200, "TOKEN_EXPIRED")
          => VerifyReply(token)' = Reply(200, "TOKEN_EXPIRED")]_vars

\* One token is at the instant of its expiry, another is still good, a third
\* was never issued.
C16_Witness ==
  /\ \E s \in play_sessions : s.expires_at = clock
  /\ \E s \in play_sessions : VerifyReply(s.play_token) = OK
  /\ NeverIssued # {}

(* =================================================================== C17 *)
\* C17: a verify call, with any token and any outcome, leaves every
\* PlaySession, wallet, order and transaction as it was; in particular no
\* step changes the expires_at of a token, so verification never refreshes or
\* extends a token.
C17_VerifyReadOnly ==
  /\ [][\A token \in TokenInputs :
          Verify(token) => UNCHANGED <<play_sessions, wallets, orders, transactions>>]_vars
  /\ [][\A s \in play_sessions : \A s2 \in play_sessions' :
          s2.play_token = s.play_token => s2.expires_at = s.expires_at]_vars

\* Verification has every outcome to give: an expired token, a good one and an
\* unknown one, with an order and transactions in the database.
C17_Witness ==
  /\ \E s \in play_sessions : VerifyReply(s.play_token) = Reply(200, "TOKEN_EXPIRED")
  /\ \E s \in play_sessions : VerifyReply(s.play_token) = OK
  /\ \E token \in TokenInputs : VerifyReply(token) = Reply(200, "INVALID_TOKEN")
  /\ orders # {}
  /\ transactions # EmptyBag

(* =================================================================== C18 *)
\* C18: a user's session state goes Idle -> Active(expires_at) -> Idle by time
\* alone: no step of any operation, the client's end signal included, updates
\* or deletes a PlaySession; a user's active session ends only with a step of
\* the clock; and once now >= expires_at for every session of a user, a new
\* /play/start of that user is no longer refused with ACTIVE_SESSION_EXISTS.
C18_SessionEndsByTimeAlone ==
  /\ [][\A s \in play_sessions : s \in play_sessions']_vars
  /\ [][\A u \in Users :
          (ActiveSessions(u) # {} /\ ActiveSessions(u)' = {}) => clock' > clock]_vars
  /\ [](\A u \in Players, g \in GameInputs :
          (\A s \in play_sessions : s.user_id = u => clock >= s.expires_at)
          => StartPrecheckReply(u, g) # Reply(409, "ACTIVE_SESSION_EXISTS"))

\* A user has started a second session after the first had expired.
C18_Witness ==
  \E s1, s2 \in play_sessions :
    /\ s1.user_id = s2.user_id
    /\ s1.expires_at <= s2.expires_at - PLAY_SESSION_DURATION_SECONDS

(* =================================================================== C19 *)
\* The order rows other than the one with the given id are the same after the
\* step.
OtherOrdersUnchanged(id) ==
  {o \in orders : o.order_id # id} = {o \in orders' : o.order_id # id}

\* C19: every status stamp of a verified event that resolved to an Order sets
\* that Order's status to the event type, allow-listed or not, order fulfilled
\* or not, and leaves its fulfilled_at, every other order, the wallets and the
\* transactions as they were; a status changes by such a stamp only, so the
\* status is the type of the last event stamped.
C19_StatusStamp ==
  /\ [][\A p \in Procs :
          WebhookStamp(p)
          => /\ \A o \in orders :
                  o.order_id = wh[p].order_id
                  => [o EXCEPT !.status = wh[p].eventType] \in orders'
             /\ Cardinality(orders') = Cardinality(orders)
             /\ OtherOrdersUnchanged(wh[p].order_id)
             /\ wallets' = wallets
             /\ transactions' = transactions]_vars
  /\ [][\A o \in orders : \A o2 \in orders' :
          (o2.order_id = o.order_id /\ o2.status # o.status)
          => \E p \in Procs :
               /\ WebhookStamp(p)
               /\ wh[p].order_id = o.order_id
               /\ o2.status = wh[p].eventType]_vars

\* A fulfilled order carries the status of an event type that is not
\* allow-listed: it was stamped after its fulfilment.
C19_Witness ==
  \E o \in orders :
    /\ o.fulfilled_at # NoTime
    /\ o.status \in EventTypes \ fulfillOnEvents

(* =================================================================== C20 *)
\* Activation p handles an event whose type is not in the allow-list.
NotAllowListed(p) == wh[p].pc # "idle" /\ wh[p].eventType \notin fulfillOnEvents

\* Every order row is the same after the step but for its status.
OnlyStatusChanges ==
  /\ Cardinality(orders') = Cardinality(orders)
  /\ \A o \in orders : \E status \in EventTypes \cup {o.status} :
       [o EXCEPT !.status = status] \in orders'

\* C20: a verified event whose type is not in the configured allow-list never
\* reaches the fulfilment transaction; the steps of its handler change no
\* wallet, append no Transaction and set no fulfilled_at, their only effect
\* being the status stamp on the resolved order; and every purchase
\* Transaction carries an allow-listed event type.
C20_NotAllowListedOnlyStamps ==
  /\ [](\A p \in Procs : NotAllowListed(p) => wh[p].pc = "stamp")
  /\ [](\A t \in BagToSet(transactions) :
          t.kind = "purchase" => t.meta.event_type \in fulfillOnEvents)
  /\ [][\A p \in Procs :
          (NotAllowListed(p) /\ (WebhookStamp(p) \/ WebhookFulfill(p) \/ WebhookAbort(p)))
          => /\ wallets' = wallets
             /\ transactions' = transactions
             /\ OnlyStatusChanges
             /\ OtherOrdersUnchanged(wh[p].order_id)
             /\ wh'[p].pc = "idle"]_vars

\* An event that is not allow-listed has been handled to the end for an order:
\* the order carries its type as status, is not fulfilled, and nothing was
\* granted.
C20_Witness ==
  /\ InFlight = 0
  /\ \E o \in orders :
       /\ o.status \in EventTypes \ fulfillOnEvents
       /\ o.fulfilled_at = NoTime
  /\ \A u \in Users : PurchasedCredits(u) = 0 /\ ~hasActivePass(wallets[u], clock)

(* =================================================================== C21 *)
\* The request passes the signature check and carries a JSON event with a type.
Verified(r) ==
  /\ SigHeader(r.kind, r.body) # NoSig
  /\ BufferFromHex(SigHeader(r.kind, r.body))
       = BufferFromHex(hmacSha256Hex(env.coinbaseWebhookSecret, r.body))
  /\ r.body.json
  /\ r.body.type # NoType

\* No order carries the order id, the charge id or the code of the payload.
ResolvesToNoOrder(body) ==
  \A o \in orders :
    /\ body.order_id = NoKey \/ o.order_id # body.order_id
    /\ body.id = NoKey \/ o.coinbase_charge_id # body.id
    /\ body.code = NoKey \/ o.coinbase_code # body.code

\* C21: a verified event that resolves to no Order by order id, charge id or
\* code is answered 200, and the handler stops there: no step of a handler is
\* ever taken for such an event, so it changes no order, wallet, transaction
\* or session.
C21_UnmatchedIgnored ==
  /\ [](\A r \in Requests :
          (Verified(r) /\ ResolvesToNoOrder(r.body))
          => WebhookReceiveReply(SigHeader(r.kind, r.body), r.body) = OK)
  /\ [][\A p \in Procs, r \in Requests :
          (/\ Verified(r) /\ ResolvesToNoOrder(r.body)
           /\ WebhookReceive(p, SigHeader(r.kind, r.body), r.body))
          => UNCHANGED <<db, wh>>]_vars

\* An order exists and a verified event names, by every key it carries, an order
\* that does not.
C21_Witness ==
  /\ orders # {}
  /\ \E r \in Requests :
       /\ Verified(r) /\ ResolvesToNoOrder(r.body)
       /\ r.body.order_id # NoKey /\ r.body.id # NoKey /\ r.body.code # NoKey

(* =================================================================== C22 *)
\* No webhook secret is configured.
NoSecret == env.coinbaseWebhookSecret = ""

ValidlySigned(r) ==
  /\ SigHeader(r.kind, r.body) # NoSig
  /\ BufferFromHex(SigHeader(r.kind, r.body))
       = BufferFromHex(hmacSha256Hex(env.coinbaseWebhookSecret, r.body))

\* The request is one of the two malformed kinds: no signature header, or a
\* valid signature over a body that is not JSON.
Malformed(r) ==
  \/ SigHeader(r.kind, r.body) = NoSig
  \/ ValidlySigned(r) /\ ~r.body.json

\* C23: with a secret configured, a webhook request without a signature header
\* is answered 400, and so is a request with a valid signature whose body is
\* not valid JSON; neither starts a handler step or changes an order, wallet,
\* transaction or session.
C23_MalformedRefused ==
  /\ [](~NoSecret =>
          \A r \in Requests :
            /\ SigHeader(r.kind, r.body) = NoSig
               => WebhookReceiveReply(SigHeader(r.kind, r.body), r.body)
                    = Reply(400, "Missing X-CC-Webhook-Signature.")
            /\ (ValidlySigned(r) /\ ~r.body.json)
               => WebhookReceiveReply(SigHeader(r.kind, r.body), r.body)
                    = Reply(400, "Invalid JSON."))
  /\ [][\A p \in Procs, r \in Requests :
          (/\ ~NoSecret /\ Malformed(r)
           /\ WebhookReceive(p, SigHeader(r.kind, r.body), r.body))
          => UNCHANGED <<db, wh>>]_vars

\* A secret is configured, an unfulfilled order exists, and the requests include
\* one without a header and one validly signed over a body that is not JSON.
C23_Witness ==
  /\ ~NoSecret
  /\ \E o \in orders : o.fulfilled_at = NoTime /\ o.status = "created"
  /\ \E r \in Requests : SigHeader(r.kind, r.body) = NoSig
  /\ \E r \in Requests : ValidlySigned(r) /\ ~r.body.json

(* =================================================================== C24 *)
\* Activation p ends its delivery with this step.
DeliveryEnds(p) == wh[p].pc # "idle" /\ wh'[p].pc = "idle"

\* C24: once a webhook has passed signature verification and JSON parsing,
\* every outcome of its processing is acknowledged with 200; in particular
\* every step by which a handler that has reached its fulfilment transaction
\* ends the delivery, the failure of that transaction included, replies 200.
C24_AlwaysAcknowledged ==
  [][\A p \in Procs :
       (wh[p].pc = "fulfill" /\ DeliveryEnds(p)) => ProcessingReply(p) = OK]_vars

\* A delivery is at its fulfilment transaction.
C24_Witness ==
  \E p \in Procs : wh[p].pc = "fulfill"

(* =================================================================== C25 *)
\* The step is a failure of the delivery handled by p: the handler stops
\* without having reached one of its returns.
DeliveryFails(p) ==
  /\ DeliveryEnds(p)
  /\ ~(WebhookStamp(p) \/ WebhookFulfill(p))

\* The order with the given id is marked fulfilled.
FulfilledOrder(id) == \E o \in orders : o.order_id = id /\ o.fulfilled_at # NoTime

\* C25: when the processing of a delivery fails before its fulfilment
\* transaction commits, after the status stamp too, no order becomes
\* fulfilled and nothing is granted; an unfulfilled order passes the
\* idempotency gate of a later fulfilling delivery whatever its status; and
\* under a provider that keeps redelivering, every order is eventually
\* fulfilled.
C25_RedeliveryFulfills ==
  /\ [][\A p \in Procs :
          DeliveryFails(p)
          => /\ wallets' = wallets
             /\ transactions' = transactions
             /\ \A o \in orders' : o.fulfilled_at # NoTime => FulfilledOrder(o.order_id)]_vars
  /\ [](\A o \in orders :
          o.fulfilled_at = NoTime
          => AfterStamp("charge:confirmed", o.fulfilled_at, o.sku) = "fulfill")
  /\ \A k \in 1..MaxRaceOrders :
       (\E o \in orders : o.order_id = OrderId(k)) ~> FulfilledOrder(OrderId(k))

\* A delivery of the fulfilling event failed after the status stamp: the order
\* carries the status of the event, is not fulfilled, nothing was granted, and no
\* handler is at work.
C25_Witness ==
  /\ InFlight = 0
  /\ \E o \in orders :
       /\ o.status \in fulfillOnEvents
       /\ o.fulfilled_at = NoTime
       /\ PurchaseCount(o.order_id) = 0

(* =================================================================== C26 *)
\* POST /commerce/create-charge as it arrives: the reply.
CreateChargeRequestReply(c, sku, provider) ==
  IF AuthReply(c) # NoReply THEN AuthReply(c)
  ELSE CreateChargeReply(authenticateRequest(c), sku, provider)

\* The provider has returned a hosted url and a charge id to an authenticated
\* request for a sku of the catalog, made with the API key configured.
ChargeCreated(c, sku, provider) ==
  /\ Authenticated(c)
  /\ env.coinbaseApiKey # ""
  /\ sku \in CatalogSkus
  /\ provider = "ok"

\* C26: create-charge inserts an Order, with status 'created', fulfilled_at
\* unset and the user and sku of the request, only after the provider has
\* returned a hosted url and a charge id; every failing outcome (401, 501 for
\* a missing API key, 400 for a bad sku, 502 for a provider error or an
\* incomplete provider response) leaves the orders as they were; and the
\* request never changes a wallet, a transaction or a play session.
C26_OrderOnlyAfterProvider ==
  /\ [](\A c \in Credentials, sku \in SkuInputs, provider \in ProviderOutcomes :
          LET r == CreateChargeRequestReply(c, sku, provider)
          IN /\ r.code = 200 <=> ChargeCreated(c, sku, provider)
             /\ authenticateRequest(c) = NoUser => r.code = 401
             /\ Authenticated(c) /\ env.coinbaseApiKey = "" => r.code = 501
             /\ Authenticated(c) /\ env.coinbaseApiKey # "" /\ sku \notin CatalogSkus
                  => r.code = 400
             /\ Authenticated(c) /\ env.coinbaseApiKey # "" /\ sku \in CatalogSkus
                  /\ provider # "ok" => r.code = 502)
  /\ [][\A c \in Credentials, sku \in SkuInputs, provider \in ProviderOutcomes :
          CreateChargeRequest(c, sku, provider)
            => /\ wallets' = wallets
               /\ transactions' = transactions
               /\ play_sessions' = play_sessions
               /\ IF ChargeCreated(c, sku, provider)
                    THEN \E row \in orders' \ orders :
                           /\ orders' = orders \cup {row}
                           /\ row.status = "created"
                           /\ row.fulfilled_at = NoTime
                           /\ row.user_id = authenticateRequest(c)
                           /\ row.sku = sku
                    ELSE orders' = orders]_vars

\* An order inserted by create-charge for the second user, untouched since.
C26_Witness ==
  \E o \in orders :
    /\ o.user_id = "u2" /\ o.status = "created" /\ o.fulfilled_at = NoTime
    /\ env.coinbaseApiKey # ""

(* =================================================================== C27 *)
\* What a step does to the three tables /play/start writes: it takes credits
\* from a wallet, inserts or removes a play session, appends a play Transaction.
CreditDebited == \E u \in Users : wallets'[u].credits < wallets[u].credits
SessionsChanged == play_sessions' # play_sessions
PlayTxAppended ==
  \E t \in BagToSet(transactions') :
    t.kind = "play" /\ CopiesIn(t, transactions') > CopiesIn(t, transactions)

\* The step is a committed transaction of /play/start: one session row, one
\* play Transaction naming its token, and the debit of one credit exactly when
\* the mode is credit.
StartCommitted ==
  \E s \in NewSessions, t \in BagToSet(transactions') :
    /\ play_sessions' = play_sessions \cup {s}
    /\ transactions' = transactions (+) SetToBag({t})
    /\ t.kind = "play" /\ t.user_id = s.user_id
    /\ t.meta.play_token = s.play_token /\ t.meta.mode = s.mode
    /\ IF s.mode = "credit"
         THEN /\ wallets' = [wallets EXCEPT ![s.user_id].credits = @ - 1]
              /\ t.delta_credits = 0 - 1
         ELSE /\ s.mode = "pass"
              /\ wallets' = wallets
              /\ t.delta_credits = 0

\* The play Transactions that name a token.
PlayTxCount(token) ==
  LET S == {t \in TxRows("play") : t.meta.play_token = token}
  IN Total(S, [t \in S |-> CopiesIn(t, transactions)])

\* C27: the debit of /play/start, the insertion of its PlaySession and the
\* appending of its play Transaction are committed together or not at all: no
\* step makes one of them without the others, a handler that fails before or
\* inside the transaction changes no table, and every session has exactly one
\* play Transaction and every play Transaction its session.
C27_StartAtomic ==
  /\ [][CreditDebited \/ SessionsChanged \/ PlayTxAppended => StartCommitted]_vars
  /\ [][\A p \in Procs : StartAbort(p) => db' = db]_vars
  /\ [](/\ \A s \in play_sessions : PlayTxCount(s.play_token) = 1
        /\ \A t \in TxRows("play") :
             \E s \in play_sessions :
               s.play_token = t.meta.play_token /\ s.user_id = t.user_id)

\* A session paid with a credit: the debit, the session row and the play
\* Transaction are all there, and nothing was granted meanwhile.
C27_Witness ==
  \E s \in play_sessions :
    /\ s.mode = "credit"
    /\ PlayTxCount(s.play_token) = 1
    /\ wallets[s.user_id].credits = InitialCredits(s.user_id) - 1
    /\ PurchasedCredits(s.user_id) = 0

(* =================================================================== C28 *)
\* The request carries no bearer token, or one the identity provider rejects.
NoAcceptedToken(c) == c.bearer \in {NoBearer, BadBearer}

\* The identity provider is configured.
IdentityProviderConfigured ==
  Truthy(env.supabaseUrl) /\ Truthy(env.supabaseServiceRoleKey)

\* A step of one of the three authenticated routes for a request carrying c.
AuthenticatedRoute(c) ==
  \/ WalletMeRequest(c)
  \/ \E sku \in SkuInputs, provider \in ProviderOutcomes :
       CreateChargeRequest(c, sku, provider)
  \/ \E p \in Procs, gameId \in GameInputs : StartRequest(p, c, gameId)

\* C28: a request to /wallet/me, /commerce/create-charge or /play/start that
\* carries no bearer token accepted by the identity provider is answered 401
\* and changes no state: no wallet row is created, no order is inserted, no
\* session is started.
C28_Unauthenticated401 ==
  /\ [](\A c \in Credentials : NoAcceptedToken(c) => AuthReply(c) = UNAUTHORIZED)
  /\ [][\A c \in Credentials :
          NoAcceptedToken(c) /\ AuthenticatedRoute(c) => UNCHANGED <<db, st>>]_vars

\* What holds of such a request in every configuration: it is not
\* authenticated and changes no state; it is answered 401 unless it carries a
\* bearer token while the identity provider is not configured, and 500 then.
UnauthenticatedRefused ==
  /\ [](\A c \in Credentials :
          NoAcceptedToken(c) =>
            /\ ~Authenticated(c)
            /\ AuthReply(c) =
                 IF IdentityProviderConfigured \/ c.bearer = NoBearer
                   THEN UNAUTHORIZED
                   ELSE Reply(500, "Internal Server Error"))
  /\ [][\A c \in Credentials :
          NoAcceptedToken(c) /\ AuthenticatedRoute(c) => UNCHANGED <<db, st>>]_vars

\* A server without the identity provider configured receives a request with a
\* bearer token, which verifySupabaseToken throws on.
C28_Witness ==
  /\ ~IdentityProviderConfigured
  /\ \E c \in Credentials :
       NoAcceptedToken(c) /\ authenticateRequest(c) = AuthError

(* =================================================================== C29 *)
\* The process is a production one, or the bypass flag is not set to 1.
BypassNotAllowed ==
  env.process.NODE_ENV = "production" \/ env.process.DEV_AUTH_BYPASS # "1"

\* The identity of the request is that of a bearer token the identity provider
\* has verified.
FromVerifiedBearer(c, userId) ==
  /\ c.bearer # NoBearer
  /\ IdentityProviderConfigured
  /\ c.bearer[2] \in Users
  /\ userId = c.bearer[2]

\* C29: the dev auth bypass only works when NODE_ENV is not 'production' and
\* the bypass flag is explicitly enabled: otherwise no request is authenticated
\* from its x-dev-user-id header or as the default dev user, and the identity of
\* a request comes only from a verified bearer token.
C29_BypassOnlyInDev ==
  /\ [](BypassNotAllowed =>
          /\ ~devAuthBypassActive
          /\ \A c \in Credentials :
               \/ authenticateRequest(c) \in {NoUser, AuthError}
               \/ FromVerifiedBearer(c, authenticateRequest(c)))
  /\ [][BypassNotAllowed =>
          \A c \in Credentials :
            AuthenticatedRoute(c) /\ ~FromVerifiedBearer(c, c.bearer[2])
              => UNCHANGED <<db, st>>]_vars

\* A production server with the bypass flag set has served requests, and
\* refuses a request that has only an x-dev-user-id header.
C29_Witness ==
  /\ env.process.NODE_ENV = "production"
  /\ env.process.DEV_AUTH_BYPASS = "1"
  /\ orders # {}
  /\ \E c \in Credentials :
       c.bearer = NoBearer /\ c.devUserId = "u2" /\ authenticateRequest(c) = NoUser

(* =================================================================== C30 *)
\* A step in which a handler calls getWallet for user u.
GetWalletStep(u) ==
  \/ WalletMe(u)
  \/ \E p \in Procs : st[p].userId = u /\ StartGetWallet(p)

\* The wallets table after a get-or-create for user u: a row with credits 0 and
\* no pass where there was none, the table as it was otherwise.
AfterGetOrCreate(ws, u) ==
  [v \in Users |->
     IF v = u /\ ~ws[v].row
       THEN [row |-> TRUE, credits |-> 0, pass_expires_at |-> NoTime]
       ELSE ws[v]]

\* C30: getOrCreateWallet is idempotent: it inserts a wallet with credits 0 and
\* no pass if and only if the user has none and leaves an existing wallet
\* unchanged; doing it twice is doing it once; and after any sequence of
\* operations, concurrent first accesses included, the user has its one wallet
\* row, which no operation removes.
C30_GetOrCreateIdempotent ==
  /\ [][\A u \in Users : GetWalletStep(u) => wallets' = AfterGetOrCreate(wallets, u)]_vars
  /\ [](\A u \in Users :
          /\ ensureWallet(wallets, u) = AfterGetOrCreate(wallets, u)
          /\ ensureWallet(ensureWallet(wallets, u), u) = ensureWallet(wallets, u))
  /\ [][\A u \in Users : wallets[u].row => wallets'[u].row]_vars
  /\ [](\A p \in Procs :
          st[p].pc = "tx" => wallets[st[p].userId].row /\ st[p].wallet.row)

\* Two /play/start handlers of a user without a wallet were in flight together
\* and both have called getWallet: the user has one row, credits 0 and no pass.
C30_Witness ==
  /\ \A p \in Procs : st[p].pc = "tx" /\ st[p].userId = "u2"
  /\ wallets["u2"] = Wallet(0, NoTime)
  /\ ~wallets0["u2"].row

(* =================================================================== C31 *)
\* The orders a key of a payload matches, by each of the three columns.
ByOrderId(k) == {o \in orders : k[1] # NoKey /\ o.order_id = k[1]}
ByChargeId(k) == {o \in orders : k[2] # NoKey /\ o.coinbase_charge_id = k[2]}
ByCode(k) == {o \in orders : k[3] # NoKey /\ o.coinbase_code = k[3]}

\* C31: order resolution tries the embedded order id, then the provider charge
\* id, then the provider code, and the first hit wins: an order the order id
\* matches is used even when the charge id or the code match another order; if
\* the order id is absent or matches none the charge id is tried, and only then
\* the code; and the handler goes on with the order so resolved.
C31_FirstHitWins ==
  /\ [](\A k \in KeyChoices :
          /\ ByOrderId(k) # {} => findOrder(k[1], k[2], k[3]) = ByOrderId(k)
          /\ ByOrderId(k) = {} /\ ByChargeId(k) # {}
               => findOrder(k[1], k[2], k[3]) = ByChargeId(k)
          /\ ByOrderId(k) = {} /\ ByChargeId(k) = {} /\ ByCode(k) # {}
               => findOrder(k[1], k[2], k[3]) = ByCode(k)
          /\ ByOrderId(k) = {} /\ ByChargeId(k) = {} /\ ByCode(k) = {}
               => findOrder(k[1], k[2], k[3]) = {})
  /\ [][\A p \in Procs, r \in SignedRequests :
          /\ WebhookReceive(p, SigHeader(r.kind, r.body), r.body)
          /\ wh'[p].pc = "stamp"
          /\ ByOrderId(<<r.body.order_id, r.body.id, r.body.code>>) # {}
          => wh'[p].order_id = r.body.order_id]_vars

\* Two orders exist; a payload with the order id of the first and the charge id
\* and code of the second resolves to the first, and one with no order id, the
\* charge id of the second and the code of the first resolves to the second.
C31_Witness ==
  /\ \E o \in orders : o.order_id = OrderId(1)
  /\ \E o \in orders : o.order_id = OrderId(2)
  /\ \A o \in findOrder(OrderId(1), ChargeId(2), Code(2)) : o.order_id = OrderId(1)
  /\ \A o \in findOrder(NoKey, ChargeId(2), Code(1)) : o.order_id = OrderId(2)
  /\ \E p \in Procs : wh[p].pc = "stamp" /\ wh[p].order_id = OrderId(1)

(* =================================================================== C32 *)
\* The wallet row of the user of start p as the database holds it now, and
\* whether it pays for a session: an active pass, or a credit.
CurrentWallet(p) == wallets[st[p].userId]
CanPay(wallet, t) == hasActivePass(wallet, t) \/ wallet.credits >= 1

\* C32: /play/start decides pass-versus-credit from the wallet as it is inside
\* its transaction, not from a value read before it: a grant that commits after
\* the exclusivity pre-check and before the transaction is taken into account,
\* so a start whose user can pay when the transaction runs inserts a session
\* and is not refused with INSUFFICIENT_CREDITS on a stale balance.
C32_DecidesOnCurrentWallet ==
  [][\A p \in Procs :
       StartTx(p) /\ CanPay(CurrentWallet(p), clock)
         => /\ StartMode(st[p].wallet, wallets, st[p].userId, clock) # "none"
            /\ \E s \in NewSessions : s.user_id = st[p].userId]_vars

\* A start has read a wallet without credits and without a pass and stands
\* before its transaction, and a grant has since given the user credits.
C32_Witness ==
  \E p \in Procs :
    /\ st[p].pc = "tx"
    /\ ~CanPay(st[p].wallet, clock)
    /\ CurrentWallet(p).credits >= 1
    /\ PurchasedCredits(st[p].userId) >= 1

(* =================================================================== C33 *)
\* Handler p stands at the status stamp with a fulfilling event for an order
\* whose stored sku is not in the catalog.
FulfillingUnknownSku(p) ==
  /\ wh[p].pc = "stamp"
  /\ wh[p].eventType \in fulfillOnEvents
  /\ \E o \in orders : o.order_id = wh[p].order_id /\ o.sku \notin CatalogSkus

\* C33: a fulfilling event for an order whose stored sku is not in the catalog
\* is answered 200, stamps the order's status, applies no grant, appends no
\* Transaction and leaves fulfilled_at unset.
C33_UnknownSkuStampedOnly ==
  /\ [][\A p \in Procs :
          FulfillingUnknownSku(p) /\ WebhookStamp(p)
            => /\ ProcessingReply(p) = OK
               /\ wh'[p].pc = "idle"
               /\ wallets' = wallets
               /\ transactions' = transactions
               /\ orders' = {IF o.order_id = wh[p].order_id
                               THEN [o EXCEPT !.status = wh[p].eventType]
                               ELSE o : o \in orders}]_vars
  /\ [](\A o \in orders :
          o.sku \notin CatalogSkus
            => o.fulfilled_at = NoTime /\ PurchaseCount(o.order_id) = 0)

\* The order with the retired sku has had its fulfilling event processed: its
\* status is stamped, it is unfulfilled, and nothing was granted for it.
C33_Witness ==
  /\ \E o \in orders :
       /\ o.sku \notin CatalogSkus
       /\ o.status = "charge:confirmed"
       /\ o.fulfilled_at = NoTime
       /\ PurchaseCount(o.order_id) = 0
  /\ \A p \in Procs : wh[p].pc = "idle"
  /\ wallets = wallets0

(* =================================================================== C34 *)
\* The order a handler activation works on.
OrderOf(p) == CHOOSE o \in orders : o.order_id = wh[p].order_id

\* C34: each grant appends exactly one purchase Transaction whose delta_credits
\* equals the credits added to the wallet; a grant of a credits-only sku leaves
\* pass_expires_at unchanged and a grant of a pass-only sku leaves the credits
\* unchanged, its Transaction having delta 0.
C34_GrantRecordedOnce ==
  [][\A p \in Procs :
       WebhookFulfill(p) =>
         LET u == OrderOf(p).user_id
             item == SKU_CATALOG[OrderOf(p).sku]
             before == WalletOf(u)
             after == wallets'[u]
         IN /\ \E t \in BagToSet(transactions') :
                 /\ transactions' = transactions (+) SetToBag({t})
                 /\ t.kind = "purchase" /\ t.user_id = u /\ t.sku = OrderOf(p).sku
                 /\ t.delta_credits = after.credits - before.credits
                 /\ item.grantCredits = 0 => t.delta_credits = 0
            /\ item.passMinutes = 0 => after.pass_expires_at = before.pass_expires_at
            /\ item.grantCredits = 0 => after.credits = before.credits
            /\ item.grantCredits > 0 => after.credits = before.credits + item.grantCredits
            /\ \A v \in Users \ {u} : wallets'[v] = wallets[v]]_vars

\* A credits-only order and a pass-only order of one user have both been
\* granted: two purchase Transactions, one of them with delta 0.
C34_Witness ==
  /\ \E t \in TxRows("purchase") : t.sku = "CREDITS_10" /\ t.delta_credits = 10
  /\ \E t \in TxRows("purchase") : t.sku = "PASS_60_MIN" /\ t.delta_credits = 0
  /\ wallets["u1"].credits = InitialCredits("u1") + 10
  /\ wallets["u1"].pass_expires_at # NoTime

(* =================================================================== C35 *)
\* Date.toISOString: the instant as fixed-width fields, the most significant
\* first (the day, then two digits each for hours, minutes and seconds).
toISOString(t) ==
  <<t \div 86400,
    ((t \div 3600) % 24) \div 10, ((t \div 3600) % 24) % 10,
    ((t \div 60) % 60) \div 10, ((t \div 60) % 60) % 10,
    (t % 60) \div 10, t % 10>>

\* a > b as SQLite compares two TEXT values of equal length: by the first
\* position where they differ.
TextGreater(a, b) ==
  \E i \in 1..Len(a) :
    /\ a[i] > b[i]
    /\ \A j \in 1..(i - 1) : a[j] = b[j]

\* The pre-check of /play/start counts session s as active at instant t:
\* expires_at > ? on the ISO strings.
PrecheckCounts(s, t) == TextGreater(toISOString(s.expires_at), toISOString(t))

\* GET /play/verify accepts the token of session s.
VerifyAccepts(s) == VerifyReply(s.play_token) = OK

\* C35: expiry is inclusive and consistent across the checks: a pass whose
\* pass_expires_at equals now is not active; and for every PlaySession and
\* every instant, verify accepts its token exactly when the exclusivity
\* pre-check counts the session as active for its user, so that at
\* now = expires_at the token is TOKEN_EXPIRED and the session no longer blocks
\* a new start.
C35_ExpiryInclusive ==
  /\ \A u \in Users :
       /\ wallets[u].pass_expires_at = clock => ~hasActivePass(wallets[u], clock)
       /\ hasActivePass(wallets[u], clock)
            <=> wallets[u].pass_expires_at # NoTime /\ wallets[u].pass_expires_at > clock
  /\ \A s \in play_sessions :
       /\ VerifyAccepts(s) <=> PrecheckCounts(s, clock)
       /\ PrecheckCounts(s, clock) <=> s.expires_at > clock
       /\ s.expires_at = clock => VerifyReply(s.play_token) = Reply(200, "TOKEN_EXPIRED")
  /\ \A u \in Users, g \in GameIds :
       StartPrecheckReply(u, g) = Reply(409, "ACTIVE_SESSION_EXISTS")
         <=> \E s \in play_sessions : s.user_id = u /\ VerifyAccepts(s)

\* The clock stands at the instant a session expires: its token is refused and
\* its user may start again; and a pass has been granted.
C35_Witness ==
  /\ \E s \in play_sessions :
       /\ s.expires_at = clock
       /\ StartPrecheckReply(s.user_id, "flappy") = NoReply
  /\ \E u \in Users : wallets[u].pass_expires_at # NoTime

(* =================================================================== C36 *)
\* The sessions of a user that were paid with a credit, and the number of its
\* play Transactions with delta_credits -1.
CreditSessions(u) == {s \in play_sessions : s.user_id = u /\ s.mode = "credit"}
DebitRows(u) ==
  LET S == {t \in TxRows("play") : t.user_id = u /\ t.delta_credits = 0 - 1}
  IN Total(S, [t \in S |-> CopiesIn(t, transactions)])

\* C36: ledger conservation: in every reachable state the credits of each
\* wallet equal the sum of delta_credits over the Transactions of its user, and
\* the number of credit-mode PlaySessions of a user equals the number of its
\* play Transactions with delta -1; so the credit-mode sessions ever issued to
\* a user never exceed the credits granted to it.
C36_LedgerConserved ==
  \A u \in Users :
    /\ wallets[u].credits = DeltaCredits(u, "purchase") + DeltaCredits(u, "play")
    /\ Cardinality(CreditSessions(u)) = DebitRows(u)
    /\ Cardinality(CreditSessions(u)) <= DeltaCredits(u, "purchase")
    /\ wallets[u].credits >= 0

\* A user was granted credits and has spent one on each of two sessions.
C36_Witness ==
  \E u \in Users :
    /\ DeltaCredits(u, "purchase") = 10
    /\ Cardinality(CreditSessions(u)) = 2
    /\ wallets[u].credits = 8

(* =================================================================== C37 *)
\* C37: the pass_expires_at of a wallet never decreases: no operation (a grant
\* of any sku, a session start in either mode, a wallet read, a verification)
\* moves it to an earlier time or clears it, so unused pass time is never lost.
C37_PassNeverShrinks ==
  /\ [][\A u \in Users :
          /\ wallets'[u].pass_expires_at >= wallets[u].pass_expires_at
          /\ wallets[u].pass_expires_at # NoTime => wallets'[u].pass_expires_at # NoTime]_vars
  /\ [](\A u \in Users, sku \in CatalogSkus :
          LET after == grantWallets(wallets, u, SKU_CATALOG[sku], clock)[u]
          IN /\ after.pass_expires_at >= wallets[u].pass_expires_at
             /\ SKU_CATALOG[sku].passMinutes > 0 /\ hasActivePass(wallets[u], clock)
                  => after.pass_expires_at
                       = wallets[u].pass_expires_at + SKU_CATALOG[sku].passMinutes * 60)

\* Two passes were bought, the second while the first was running: the wallet
\* holds the time of both, and a session was started on the pass.
C37_Witness ==
  \E u \in Users :
    /\ wallets[u].pass_expires_at = 2 * PassSeconds
    /\ Cardinality(Fulfilled(u)) = 2
    /\ \E s \in play_sessions : s.user_id = u /\ s.mode = "pass"

(* =================================================================== C38 *)
\* The credits the fulfilled orders of a user grant, one grant for each.
GrantsOfFulfilled(u) ==
  Total(Fulfilled(u), [o \in Fulfilled(u) |-> SKU_CATALOG[o.sku].grantCredits])

\* C38: the idempotency gate is per order: fulfilling one order never
\* suppresses or duplicates the fulfilment of another, so for any set of
\* distinct orders of one user and any interleaving of their fulfilling events,
\* duplicates included, each order is granted exactly once and the total of the
\* wallet equals the sum of the grants of the fulfilled orders.
C38_EachOrderOnce ==
  /\ \A o \in orders :
       PurchaseCount(o.order_id) = IF o.fulfilled_at # NoTime THEN 1 ELSE 0
  /\ \A u \in Users :
       wallets[u].credits = InitialCredits(u) + GrantsOfFulfilled(u)

\* What holds of two orders whose deliveries are handled in parallel: a
\* fulfilment changes the row of its own order only and records one purchase
\* Transaction naming it, and the gate of a delivery looks at its own order only.
PerOrderGate ==
  /\ [][\A p \in Procs :
          WebhookFulfill(p) =>
            /\ \A o \in orders : o.order_id # wh[p].order_id => o \in orders'
            /\ \A o \in orders :
                 PurchaseCount(o.order_id)' =
                   PurchaseCount(o.order_id)
                   + IF o.order_id = wh[p].order_id THEN 1 ELSE 0]_vars
  /\ [][\A p \in Procs :
          WebhookStamp(p) /\ wh[p].eventType \in fulfillOnEvents
            /\ wh[p].fulfilled_at = NoTime
            => wh'[p].pc = "fulfill"]_vars

\* Two orders of one user, each with its fulfilling event delivered; the
\* second order was fulfilled while two deliveries for the first were under way.
C38_Witness ==
  /\ \E o \in orders : o.order_id = OrderId(1) /\ o.fulfilled_at = NoTime
  /\ \E o \in orders : o.order_id = OrderId(2) /\ o.fulfilled_at # NoTime
  /\ \A p \in Procs : wh[p].pc = "fulfill" /\ wh[p].order_id = OrderId(1)

(* =================================================================== C39 *)
\* The fulfilling events that name the charge create-charge is about to
\* insert an order for: the provider has the charge, the database not yet.
NextOrder == Cardinality(orders) + 1
EarlyBodies ==
  {b \in EventBodies :
     /\ b.type \in fulfillOnEvents
     /\ b.id = ChargeId(NextOrder)
     /\ b.order_id \in {NoKey, OrderId(NextOrder)}
     /\ b.code \in {NoKey, Code(NextOrder)}}

\* C39: create-charge inserts the Order only after the provider call has
\* returned, so a fulfilling webhook for that charge that is delivered before
\* the insert resolves to no order, is acknowledged 200 and grants nothing; the
\* order is fulfilled only by a delivery processed after the row exists.
C39_EarlyDeliveryIgnored ==
  /\ [](\A b \in EarlyBodies :
          /\ findOrder(b.order_id, b.id, b.code) = {}
          /\ WebhookReceiveReply(SigHeader("valid", b), b) = OK)
  /\ [][\A p \in Procs, b \in EarlyBodies :
          WebhookReceive(p, SigHeader("valid", b), b) => UNCHANGED vars]_vars
  /\ [][\A o \in orders' :
          (/\ o.fulfilled_at # NoTime
           /\ \A q \in orders : q.order_id = o.order_id => q.fulfilled_at = NoTime)
            => \E p \in Procs :
                 /\ WebhookFulfill(p)
                 /\ wh[p].order_id = o.order_id
                 /\ \E q \in orders : q.order_id = o.order_id /\ q.fulfilled_at = NoTime]_vars
  /\ [](\A t \in TxRows("purchase") :
          \E o \in orders : o.order_id = t.meta.order_id /\ o.fulfilled_at # NoTime)
  /\ [][\A o \in orders' :
          (\A q \in orders : q.order_id # o.order_id)
            => o.status = "created" /\ o.fulfilled_at = NoTime]_vars

\* The first order was fulfilled; the second was inserted after events naming
\* its charge had been possible, and a delivery received after the insert is
\* about to fulfil it.
C39_Witness ==
  /\ \E o \in orders : o.order_id = OrderId(1) /\ o.fulfilled_at # NoTime
  /\ \E o \in orders : o.order_id = OrderId(2) /\ o.fulfilled_at = NoTime
  /\ \E p \in Procs : wh[p].pc = "fulfill" /\ wh[p].order_id = OrderId(2)

(* ------------------------------------------------------------------ C40 *)
\* The /play/start requests in flight that the page now mounted has sent.
Pending == {k \in 1..Len(arcade.requests) : arcade.requests[k].mounted}

\* A step that sends a /play/start request.
Sends == Len(arcade.requests') > Len(arcade.requests)

\* The page stays on the Arcade route over the step.
StaysMounted == arcade.route = "arcade" /\ arcade'.route = "arcade"

\* C40: the Arcade page has at most one /play/start request in flight at a
\* time. busyGame is set exactly while the page's request is pending, and is
\* the machine it was sent for; meanwhile that machine is 'busy' and every
\* other machine is 'locked'. A request is sent only by a click on an
\* available machine while none is pending (a click on any other machine
\* changes nothing). Every response that is not a success clears busyGame, and
\* all machines are then available again, except after ACTIVE_SESSION_EXISTS,
\* when all are locked and stay locked for as long as the page is mounted. A
\* pending start always ends.
C40_OneStartAtATime ==
  /\ [](Cardinality(Pending) <= 1)
  /\ []((arcade.busyGame # Null) <=> (Pending # {}))
  /\ [](\A k \in Pending : arcade.requests[k].gameId = arcade.busyGame)
  /\ [](arcade.busyGame # Null
          => \A gameId \in Machines :
                getMachineStatus(gameId)
                  = IF gameId = arcade.busyGame THEN "busy" ELSE "locked")
  /\ [][Sends => /\ arcade.busyGame = Null
                 /\ arcade.lockedReason # "session"
                 /\ arcade'.busyGame \in Machines
                 /\ Pending' # {}]_vars
  /\ [][\A k \in Pending, res \in StartResponses \ {OK} :
          StartResponse(k, res)
          => /\ arcade'.busyGame = Null
             /\ \A gameId \in Machines :
                  getMachineStatus(gameId)'
                    = IF res.error = "ACTIVE_SESSION_EXISTS" THEN "locked"
                      ELSE "available"]_vars
  /\ [][arcade.lockedReason = "session" /\ arcade.busyGame = Null /\ StaysMounted
          => \A gameId \in Machines : getMachineStatus(gameId)' = "locked"]_vars
  /\ (arcade.busyGame # Null ~> arcade.busyGame = Null)

\* A start is pending on one machine after an earlier start on another machine
\* had failed and left the machines available.
C40_Witness ==
  /\ arcade.route = "arcade"
  /\ arcade.busyGame # Null
  /\ Cardinality(Pending) = 1
  /\ \E gameId \in arcade.pressed : gameId # arcade.busyGame
  /\ getMachineStatus(arcade.busyGame) = "busy"

====
